---- MODULE Spec2Model ----
(***************************************************************************)
(* goroute/route: the request multiplexer (Mux), its path tree, the        *)
(* middleware composition, groups and the pooled request context.          *)
(*                                                                         *)
(* Strings are sequences of one-character strings, so that prefixes,       *)
(* segments and concatenations (method+path, prefix+path) are computed.    *)
(***************************************************************************)
EXTENDS Integers, Sequences, FiniteSets, TLC

\* ------------------------------------------------------------------ bounds
MaxAdds == 3        \* route registrations in one run
MaxReqs == 2        \* requests served in one run
MaxCtx == 2         \* contexts the pool allocates in one run
MaxUses == 3        \* Use/Pre/Group calls in one run
MaxMwOps == 4       \* registration calls in one run with middleware
MaxMwReqs == 1      \* requests served in one run with middleware
MaxConcAdds == 1    \* registrations before a concurrent run
MaxConcUses == 1    \* global middleware before a concurrent run
MaxErrAdds == 1     \* routes of a run with failing handlers
MaxErrUses == 1     \* global middleware of a run with failing handlers
MaxErrReqs == 1     \* requests served in a run with failing handlers
MaxTreeAdds == 3    \* routes of a run on overlapping templates
MaxTreeReqs == 1    \* requests served in a run on overlapping templates
MaxInlineOps == 3   \* registration calls in a run with inline middleware
MaxInlineReqs == 1  \* requests served in a run with inline middleware
MaxReuseAdds == 2   \* routes of a run with a reused context
MaxReuseReqs == 2   \* requests served in a run with a reused context

\* ------------------------------------------------------------ string tools
Max(a, b) == IF a >= b THEN a ELSE b
Min(a, b) == IF a <= b THEN a ELSE b
Drop(s, n) == SubSeq(s, n + 1, Len(s))
Take(s, n) == SubSeq(s, 1, n)
IsPrefix(p, s) == Len(p) <= Len(s) /\ Take(s, Len(p)) = p

RECURSIVE LCP(_, _)
\* length of the longest common prefix of two strings
LCP(a, b) ==
    IF a = <<>> \/ b = <<>> \/ a[1] # b[1] THEN 0
    ELSE 1 + LCP(Tail(a), Tail(b))

RECURSIVE SegLen(_)
\* number of leading characters before the next "/" (or the end)
SegLen(s) ==
    IF s = <<>> \/ s[1] = "/" THEN 0 ELSE 1 + SegLen(Tail(s))

RECURSIVE StaticLen(_)
\* number of leading characters before the next ":" or "*" (or the end)
StaticLen(s) ==
    IF s = <<>> \/ s[1] = ":" \/ s[1] = "*" THEN 0 ELSE 1 + StaticLen(Tail(s))

RECURSIVE PathUnescape(_)
\* url.PathUnescape: every %2F becomes "/" (the one escape of the runs)
PathUnescape(s) ==
    IF s = <<>> THEN <<>>
    ELSE IF Len(s) >= 3 /\ Take(s, 3) = <<"%", "2", "F">>
    THEN <<"/">> \o PathUnescape(Drop(s, 3))
    ELSE <<s[1]>> \o PathUnescape(Tail(s))

\* ------------------------------------------------------- methods and errors
GET == <<"G", "E", "T">>
POST == <<"P", "O", "S", "T">>
HEAD == <<"H", "E", "A", "D">>

StatusOK == 200
StatusNotFound == 404
StatusMethodNotAllowed == 405
StatusInternalServerError == 500
StatusBadRequest == 400

NoError == [kind |-> "nil", code |-> 0, msg |-> "nil"]
\* errors.New(...): a failure that is no *HTTPError
PlainError == [kind |-> "plain", code |-> 0, msg |-> "nil"]
NewHTTPError(code) == [kind |-> "http", code |-> code, msg |-> "string"]
\* NewHTTPError(code, message) with a message that is no string
NewHTTPErrorMessage(code, msg) == [kind |-> "http", code |-> code, msg |-> msg]
ErrNotFound == NewHTTPError(StatusNotFound)
ErrBadRequest == NewHTTPError(StatusBadRequest)
ErrMethodNotAllowed == NewHTTPError(StatusMethodNotAllowed)

\* --------------------------------------------------------------- Go slices
\* A slice is a window [1..len] on a backing array of the heap; arr = 0 is nil.
NilSlice == [arr |-> 0, len |-> 0]
Cap(hp, s) == IF s.arr = 0 THEN 0 ELSE Len(hp[s.arr])
Elems(hp, s) == IF s.arr = 0 THEN <<>> ELSE Take(hp[s.arr], s.len)
Blank(n) == [i \in 1..n |-> "_"]

\* the capacity growslice picks for pointer-sized elements
GrowCap(oldcap, need) ==
    LET c == IF need > 2 * oldcap THEN need ELSE 2 * oldcap
    IN  IF c <= 4 THEN c ELSE IF c % 2 = 0 THEN c ELSE c + 1

\* append(s, es...): in place when the capacity allows, else a grown copy
AppendSlice(hp, s, es) ==
    IF es = <<>> THEN [heap |-> hp, s |-> s]
    ELSE IF s.arr # 0 /\ s.len + Len(es) <= Len(hp[s.arr])
    THEN [heap |-> [hp EXCEPT ![s.arr] =
                       [i \in 1..Len(hp[s.arr]) |->
                           IF i > s.len /\ i <= s.len + Len(es)
                           THEN es[i - s.len] ELSE hp[s.arr][i]]],
          s |-> [arr |-> s.arr, len |-> s.len + Len(es)]]
    ELSE LET c == GrowCap(Cap(hp, s), s.len + Len(es))
             a == Elems(hp, s) \o es \o Blank(c - s.len - Len(es))
         IN  [heap |-> Append(hp, a),
              s |-> [arr |-> Len(hp) + 1, len |-> s.len + Len(es)]]

\* make([]T, 0, n) followed by append(m, es...): a fresh array of capacity n
MakeSlice(hp, n, es) ==
    IF n = 0 THEN [heap |-> hp, s |-> NilSlice]
    ELSE [heap |-> Append(hp, es \o Blank(n - Len(es))),
          s |-> [arr |-> Len(hp) + 1, len |-> Len(es)]]

\* ---------------------------------------------------------------- PathTree
\* A handler stored in the tree is the closure Mux.Add builds: the user's
\* handler and the slice of inline middleware it composes when it is called.
NoHandler == [h |-> "nil", mw |-> NilSlice]

\* TreeNode: kind "s" static, "p" param, "a" wildcard (any)
NewNode(kind, prefix) ==
    [kind |-> kind, prefix |-> prefix, children |-> <<>>,
     handler |-> NoHandler, ppath |-> <<>>, pnames |-> <<>>]

RECURSIVE Pieces(_)
\* the template cut into static runs, ":name" parameters and a "*" wildcard
Pieces(t) ==
    IF t = <<>> THEN <<>>
    ELSE IF t[1] = ":"
    THEN LET n == SegLen(Tail(t))
         IN  <<[k |-> "p", v |-> Take(Tail(t), n)]>> \o Pieces(Drop(t, n + 1))
    ELSE IF t[1] = "*"
    THEN <<[k |-> "a", v |-> <<"*">>]>>
    ELSE LET n == StaticLen(t)
         IN  <<[k |-> "s", v |-> Take(t, n)]>> \o Pieces(Drop(t, n))

RECURSIVE PieceNames(_)
\* paramNames of a template: its parameter names in order, "*" for the wildcard
PieceNames(ps) ==
    IF ps = <<>> THEN <<>>
    ELSE IF ps[1].k = "s" THEN PieceNames(Tail(ps))
    ELSE <<ps[1].v>> \o PieceNames(Tail(ps))

\* index of the child of node n of the given kind (static: by first character)
FindChild(ns, n, kind, ch) ==
    LET cs == {i \in 1..Len(ns[n].children) :
                  LET c == ns[ns[n].children[i]]
                  IN  c.kind = kind /\ (kind = "s" => c.prefix[1] = ch)}
    IN  IF cs = {} THEN 0 ELSE ns[n].children[CHOOSE i \in cs : \A j \in cs : i <= j]

ReplaceChild(cs, old, new) == [i \in 1..Len(cs) |-> IF cs[i] = old THEN new ELSE cs[i]]

RECURSIVE InsertStatic(_, _, _)
\* InsertStatic with the split child's remainder left out of the new
\* intermediate node
InsertStatic_LoseRemainder(ns, cur, s) ==
    IF s = <<>> THEN [nodes |-> ns, at |-> cur]
    ELSE LET c == FindChild(ns, cur, "s", s[1])
         IN  IF c = 0
             THEN LET new == Len(ns) + 1
                  IN  [nodes |-> Append([ns EXCEPT ![cur].children = Append(@, new)],
                                        NewNode("s", s)),
                       at |-> new]
             ELSE LET l == LCP(ns[c].prefix, s)
                  IN  IF l = Len(ns[c].prefix)
                      THEN InsertStatic(ns, c, Drop(s, l))
                      ELSE LET mid == Len(ns) + 1
                               split ==
                                 Append([ns EXCEPT
                                           ![cur].children = ReplaceChild(@, c, mid),
                                           ![c].prefix = Drop(@, l)],
                                        NewNode("s", Take(s, l)))
                           IN  InsertStatic(split, mid, Drop(s, l))

\* walk (and extend) the static part s below node cur; the existing child is
\* split when s overlaps it only partially
InsertStatic(ns, cur, s) ==
    IF s = <<>> THEN [nodes |-> ns, at |-> cur]
    ELSE LET c == FindChild(ns, cur, "s", s[1])
         IN  IF c = 0
             THEN LET new == Len(ns) + 1
                  IN  [nodes |-> Append([ns EXCEPT ![cur].children = Append(@, new)],
                                        NewNode("s", s)),
                       at |-> new]
             ELSE LET l == LCP(ns[c].prefix, s)
                  IN  IF l = Len(ns[c].prefix)
                      THEN InsertStatic(ns, c, Drop(s, l))
                      ELSE LET mid == Len(ns) + 1
                               split ==
                                 Append([ns EXCEPT
                                           ![cur].children = ReplaceChild(@, c, mid),
                                           ![c].prefix = Drop(@, l)],
                                        [NewNode("s", Take(s, l)) EXCEPT
                                           !.children = <<c>>])
                           IN  InsertStatic(split, mid, Drop(s, l))

\* the param child looked up by its name too: a parameter with another name
\* becomes a second param child of cur
InsertKind_ByName(ns, cur, kind, name) ==
    LET cs == {i \in 1..Len(ns[cur].children) :
                  /\ ns[ns[cur].children[i]].kind = kind
                  /\ ns[ns[cur].children[i]].prefix = name}
    IN  IF cs # {} THEN [nodes |-> ns, at |-> ns[cur].children[CHOOSE i \in cs : TRUE]]
        ELSE LET new == Len(ns) + 1
             IN  [nodes |-> Append([ns EXCEPT ![cur].children = Append(@, new)],
                                   NewNode(kind, name)),
                  at |-> new]

\* InsertKind with a new child for every registration, the existing param or
\* wildcard child never used again
InsertKind_Always(ns, cur, kind, name) ==
    LET new == Len(ns) + 1
    IN  [nodes |-> Append([ns EXCEPT ![cur].children = Append(@, new)],
                          NewNode(kind, name)),
         at |-> new]

\* the param or wildcard child of cur, created when missing
InsertKind(ns, cur, kind, name) ==
    LET c == FindChild(ns, cur, kind, "")
    IN  IF c # 0 THEN [nodes |-> ns, at |-> c]
        ELSE LET new == Len(ns) + 1
             IN  [nodes |-> Append([ns EXCEPT ![cur].children = Append(@, new)],
                                   NewNode(kind, name)),
                  at |-> new]

\* one piece of the template inserted below cur
InsertPiece(ns, cur, p) ==
    IF p.k = "s" THEN InsertStatic(ns, cur, p.v) ELSE InsertKind(ns, cur, p.k, p.v)

RECURSIVE InsertPieces(_, _)
\* the pieces inserted one below the other, from where r stands
InsertPieces(r, ps) ==
    IF ps = <<>> THEN r ELSE InsertPieces(InsertPiece(r.nodes, r.at, ps[1]), Tail(ps))

\* the handler, the template and its parameter names bound to the node reached
BindHandler(r, template, h) ==
    [r.nodes EXCEPT ![r.at].handler = h,
                    ![r.at].ppath = template,
                    ![r.at].pnames = PieceNames(Pieces(template))]

\* router.add: insert the template below the method's root and bind the handler
Insert(ns, root, template, h) ==
    BindHandler(InsertPieces([nodes |-> ns, at |-> root], Pieces(template)), template, h)

\* ------------------------------------------------------------------- state
VARIABLES
    nodes,          \* router: the arena of TreeNodes, one root per method
    routes,         \* router.routes: map method+path -> Route
    maxParam,       \* *mux.maxParam
    premiddleware,  \* mux.premiddleware (a slice)
    middleware,     \* mux.middleware (a slice)
    groups,         \* the Groups created so far: prefix and middleware slice
    heap,           \* backing arrays of the middleware slices
    ctxs,           \* every context allocated by pool.New
    pool,           \* indices of the contexts lying idle in mux.pool
    reqs,           \* per serving goroutine: where ServeHTTP stands
    calls           \* registration calls and requests made so far

vars == <<nodes, routes, maxParam, premiddleware, middleware, groups, heap,
          ctxs, pool, reqs, calls>>

Methods == <<GET, POST, HEAD>>
\* the root of the method's tree (0: no tree for the method)
Root(method) ==
    LET is == {i \in 1..Len(Methods) : Methods[i] = method}
    IN  IF is = {} THEN 0 ELSE CHOOSE i \in is : TRUE

NotFoundHandler == [h |-> "NotFoundHandler", mw |-> NilSlice]
MethodNotAllowedHandler == [h |-> "MethodNotAllowedHandler", mw |-> NilSlice]

\* ----------------------------------------------------------------- lookup
SearchFail(pv) == [found |-> FALSE, node |-> 0, pv |-> pv, oob |-> FALSE]
\* a parameter value written past the capacity of pvalues: index out of range
SearchOob(pv) == [found |-> FALSE, node |-> 0, pv |-> pv, oob |-> TRUE]

\* the terminal node: a match when it carries a handler
AtNode(ns, n, pv) ==
    [found |-> ns[n].handler # NoHandler, node |-> n, pv |-> pv, oob |-> FALSE]
\* the first of two attempts that matched (or ran out of pvalues)
Settled(r) == r.found \/ r.oob

RECURSIVE Search_ParamFirst(_, _, _, _, _)
\* Search with the parameter child tried before the static one
Search_ParamFirst(ns, n, rest, pv, i) ==
    IF rest = <<>> THEN AtNode(ns, n, pv)
    ELSE
    LET p == FindChild(ns, n, "p", "")
        k == SegLen(rest)
        rp == IF p = 0 THEN SearchFail(pv)
              ELSE IF i + 1 > Len(pv) THEN SearchOob(pv)
              ELSE Search_ParamFirst(ns, p, Drop(rest, k),
                                     [pv EXCEPT ![i + 1] = Take(rest, k)], i + 1)
    IN  IF Settled(rp) THEN rp
        ELSE
        LET s == FindChild(ns, n, "s", rest[1])
            rs == IF s # 0 /\ IsPrefix(ns[s].prefix, rest)
                  THEN Search_ParamFirst(ns, s, Drop(rest, Len(ns[s].prefix)), rp.pv, i)
                  ELSE SearchFail(rp.pv)
        IN  IF Settled(rs) THEN rs
            ELSE
            LET a == FindChild(ns, n, "a", "")
            IN  IF a = 0 THEN SearchFail(rs.pv)
                ELSE IF i + 1 > Len(rs.pv) THEN SearchOob(rs.pv)
                ELSE [found |-> TRUE, node |-> a,
                      pv |-> [rs.pv EXCEPT ![i + 1] = rest], oob |-> FALSE]

RECURSIVE Search(_, _, _, _, _)
RECURSIVE SearchStatic(_, _, _, _, _)
RECURSIVE SearchParam(_, _, _, _, _)
\* SearchStatic trying the static child registered first, whatever character
\* its prefix starts with
SearchStatic_FirstChild(ns, n, rest, pv, i) ==
    LET cs == {j \in 1..Len(ns[n].children) : ns[ns[n].children[j]].kind = "s"}
        s == IF cs = {} THEN 0
             ELSE ns[n].children[CHOOSE j \in cs : \A k \in cs : j <= k]
    IN  IF s # 0 /\ IsPrefix(ns[s].prefix, rest)
        THEN Search(ns, s, Drop(rest, Len(ns[s].prefix)), pv, i)
        ELSE SearchFail(pv)
\* the static child whose prefix the rest of the path starts with
SearchStatic(ns, n, rest, pv, i) ==
    LET s == FindChild(ns, n, "s", rest[1])
    IN  IF s # 0 /\ IsPrefix(ns[s].prefix, rest)
        THEN Search(ns, s, Drop(rest, Len(ns[s].prefix)), pv, i)
        ELSE SearchFail(pv)
\* the wildcard child taking one segment only, like a parameter at the end
SearchAny_Segment(ns, n, rest, i, rp) ==
    IF Settled(rp) THEN rp
    ELSE IF FindChild(ns, n, "a", "") = 0 THEN SearchFail(rp.pv)
    ELSE IF SegLen(rest) < Len(rest) THEN SearchFail(rp.pv)
    ELSE IF i + 1 > Len(rp.pv) THEN SearchOob(rp.pv)
    ELSE [found |-> TRUE, node |-> FindChild(ns, n, "a", ""),
          pv |-> [rp.pv EXCEPT ![i + 1] = rest], oob |-> FALSE]
\* the wildcard child takes all that is left, unless rp has settled the search
SearchAny(ns, n, rest, i, rp) ==
    IF Settled(rp) THEN rp
    ELSE IF FindChild(ns, n, "a", "") = 0 THEN SearchFail(rp.pv)
    ELSE IF i + 1 > Len(rp.pv) THEN SearchOob(rp.pv)
    ELSE [found |-> TRUE, node |-> FindChild(ns, n, "a", ""),
          pv |-> [rp.pv EXCEPT ![i + 1] = rest], oob |-> FALSE]
\* SearchParam with the static branch final once it was entered: no way back
\* from a dead end below it to the param or wildcard child
SearchParam_StaticFinal(ns, n, rest, i, rs) ==
    IF \/ Settled(rs)
       \/ /\ FindChild(ns, n, "s", rest[1]) # 0
          /\ IsPrefix(ns[FindChild(ns, n, "s", rest[1])].prefix, rest)
    THEN rs
    ELSE SearchAny(ns, n, rest, i,
            LET p == FindChild(ns, n, "p", "")
            IN  IF p = 0 THEN SearchFail(rs.pv)
                ELSE IF i + 1 > Len(rs.pv) THEN SearchOob(rs.pv)
                ELSE Search(ns, p, Drop(rest, SegLen(rest)),
                            [rs.pv EXCEPT ![i + 1] = Take(rest, SegLen(rest))], i + 1))
\* SearchParam with the wildcard child tried before the param child
SearchParam_AnyFirst(ns, n, rest, i, rs) ==
    IF Settled(rs) THEN rs
    ELSE IF Settled(SearchAny(ns, n, rest, i, rs)) THEN SearchAny(ns, n, rest, i, rs)
    ELSE LET p == FindChild(ns, n, "p", "")
         IN  IF p = 0 THEN SearchFail(rs.pv)
             ELSE IF i + 1 > Len(rs.pv) THEN SearchOob(rs.pv)
             ELSE Search(ns, p, Drop(rest, SegLen(rest)),
                         [rs.pv EXCEPT ![i + 1] = Take(rest, SegLen(rest))], i + 1)
\* SearchParam recording a parameter's value only where pvalues holds none:
\* a value left by an earlier lookup stays
SearchParam_KeepFilled(ns, n, rest, i, rs) ==
    IF Settled(rs) THEN rs
    ELSE SearchAny(ns, n, rest, i,
            LET p == FindChild(ns, n, "p", "")
            IN  IF p = 0 THEN SearchFail(rs.pv)
                ELSE IF i + 1 > Len(rs.pv) THEN SearchOob(rs.pv)
                ELSE Search(ns, p, Drop(rest, SegLen(rest)),
                            [rs.pv EXCEPT ![i + 1] =
                                IF @ = <<>> THEN Take(rest, SegLen(rest)) ELSE @],
                            i + 1))
\* the param child takes the text up to the next "/", unless rs has settled
\* the search; then the wildcard child
SearchParam(ns, n, rest, i, rs) ==
    IF Settled(rs) THEN rs
    ELSE SearchAny(ns, n, rest, i,
            LET p == FindChild(ns, n, "p", "")
            IN  IF p = 0 THEN SearchFail(rs.pv)
                ELSE IF i + 1 > Len(rs.pv) THEN SearchOob(rs.pv)
                ELSE Search(ns, p, Drop(rest, SegLen(rest)),
                            [rs.pv EXCEPT ![i + 1] = Take(rest, SegLen(rest))], i + 1))
\* match rest below node n, trying static, then param, then wildcard children
\* and backtracking from dead ends; i parameters are recorded so far in pv
Search(ns, n, rest, pv, i) ==
    IF rest = <<>> THEN AtNode(ns, n, pv)
    ELSE SearchParam(ns, n, rest, i, SearchStatic(ns, n, rest, pv, i))

\* whether the path resolves to a handler in the method's tree
Matchable(ns, method, path) ==
    Root(method) # 0 /\ Search(ns, Root(method), path, Blank(Len(path) + 1), 0).found

\* what the search's result r leaves in the context
Found(ns, method, path, c, r) ==
    IF r.oob THEN [c EXCEPT !.panic = TRUE]
    ELSE IF r.found
    THEN [c EXCEPT !.handler = ns[r.node].handler,
                   !.path = ns[r.node].ppath,
                   !.pnames = ns[r.node].pnames,
                   !.pvalues = r.pv]
    ELSE [c EXCEPT !.pvalues = r.pv,
                   !.handler =
                      IF \E i \in 1..Len(Methods) :
                            Methods[i] # method /\ Matchable(ns, Methods[i], path)
                      THEN MethodNotAllowedHandler ELSE NotFoundHandler]

\* router.find: fill the context with handler, template and parameters
Find(ns, method, path, c) ==
    Found(ns, method, path, c,
          IF Root(method) = 0 THEN SearchFail(c.pvalues)
          ELSE Search(ns, Root(method), path, c.pvalues, 0))

\* ---------------------------------------------------------------- context
NoRequest == [Method |-> <<>>, URL |-> [Path |-> <<>>, RawPath |-> <<>>]]
\* body: the bodies written, in the order of the writes
NewResponse == [status |-> 0, committed |-> FALSE, body |-> <<>>]
EmptyStore == [k \in {} |-> ""]

\* NewContext with room for one parameter value at most
NewContext_OneValue(r) ==
    [request |-> r, response |-> NewResponse, store |-> EmptyStore,
     pvalues |-> [i \in 1..Min(maxParam, 1) |-> <<>>], handler |-> NotFoundHandler,
     path |-> <<>>, pnames |-> <<>>, panic |-> FALSE]

\* Mux.NewContext
NewContext(r) ==
    [request |-> r, response |-> NewResponse, store |-> EmptyStore,
     pvalues |-> [i \in 1..maxParam |-> <<>>], handler |-> NotFoundHandler,
     path |-> <<>>, pnames |-> <<>>, panic |-> FALSE]

\* context.reset: everything but pvalues is cleared
Reset(c, r) ==
    [c EXCEPT !.request = r, !.response = NewResponse, !.store = EmptyStore,
              !.handler = NotFoundHandler, !.path = <<>>, !.pnames = <<>>]

\* context.Set
Set(c, key, val) ==
    [c EXCEPT !.store = [k \in DOMAIN c.store \cup {key} |->
                            IF k = key THEN val ELSE c.store[k]]]

\* context.ParamValues: the values of the matched route's parameters
ParamValues(c) == Take(c.pvalues, Min(Len(c.pnames), Len(c.pvalues)))

\* context.Param: the value of the first parameter of that name, "" when none
Param(c, name) ==
    LET is == {i \in 1..Len(c.pnames) : i <= Len(c.pvalues) /\ c.pnames[i] = name}
    IN  IF is = {} THEN <<>> ELSE c.pvalues[CHOOSE i \in is : \A j \in is : i <= j]

\* Response.WriteHeader: only the first status is committed
WriteHeader(c, code) ==
    IF c.response.committed THEN c
    ELSE [c EXCEPT !.response.status = code, !.response.committed = TRUE]

\* context.NoContent
NoContent(c, code) == WriteHeader(c, code)
\* context.String and context.JSON: the status, then a body
WriteBody(c, code, kind) ==
    [WriteHeader(c, code) EXCEPT !.response.body = Append(@, kind)]

\* getPath reading the decoded path whatever the request has
getPath_Decoded(r) == r.URL.Path

\* getPath: the raw path when the request has one
getPath(r) == IF r.URL.RawPath = <<>> THEN r.URL.Path ELSE r.URL.RawPath

\* ------------------------------------------------- middleware and handlers
\* The middleware and handlers of the tests: one that calls next, one that
\* returns an error without calling next, one that responds without next.
NextNames == <<"m1", "m2", "m3", "m4", "m5", "m6", "m7", "m8">>
FailNames == <<"f1", "f2", "f3", "f4", "f5", "f6", "f7", "f8">>
RespondNames == <<"r1", "r2", "r3", "r4", "r5", "r6", "r7", "r8">>
Range(f) == {f[i] : i \in DOMAIN f}
MwKind(id) ==
    IF id \in Range(FailNames) THEN "fail"
    ELSE IF id \in Range(RespondNames) THEN "respond"
    ELSE "next"
MwCode(id) == StatusNotFound
\* The handlers of the tests: one that responds 200 (h), one that returns nil
\* and writes nothing (s), one that returns NewHTTPError(code) (e), one that
\* returns NewHTTPError(code, map) (j), one that returns errors.New (x) and
\* one that responds 200 and then returns errors.New (w).
SilentNames == <<"s1", "s2", "s3", "s4", "s5", "s6", "s7", "s8">>
HTTPErrorNames == <<"e1", "e2", "e3", "e4", "e5", "e6", "e7", "e8">>
MapErrorNames == <<"j1", "j2", "j3", "j4", "j5", "j6", "j7", "j8">>
PlainErrorNames == <<"x1", "x2", "x3", "x4", "x5", "x6", "x7", "x8">>
LateErrorNames == <<"w1", "w2", "w3", "w4", "w5", "w6", "w7", "w8">>
HandlerKind(id) ==
    IF id \in Range(SilentNames) THEN "silent"
    ELSE IF id \in Range(HTTPErrorNames) THEN "http"
    ELSE IF id \in Range(MapErrorNames) THEN "map"
    ELSE IF id \in Range(PlainErrorNames) THEN "plain"
    ELSE IF id \in Range(LateErrorNames) THEN "late"
    ELSE "ok"

Event(id, c) == [ev |-> id, path |-> c.path]
MwFrames(ms) == [i \in 1..Len(ms) |-> [t |-> "mw", id |-> ms[i], h |-> NoHandler]]
HandlerFrame(h) == [t |-> "handler", id |-> "", h |-> h]
RouterFrame == [t |-> "router", id |-> "", h |-> NoHandler]
UserFrame(id) == [t |-> "user", id |-> id, h |-> NoHandler]

Reverse(s) == [i \in 1..Len(s) |-> s[Len(s) + 1 - i]]
\* the route's closure composing the inline middleware the other way round
RouteChain_Reversed(h) == MwFrames(Reverse(Elems(heap, h.mw))) \o <<UserFrame(h.h)>>

\* the handler Mux.Add registers: the inline middleware composed around the
\* user's handler when the route is served
RouteChain(h) == MwFrames(Elems(heap, h.mw)) \o <<UserFrame(h.h)>>

\* the global chain composed in ascending order: the last registered outermost
RoutedChain_Ascending(c) ==
    MwFrames(Reverse(Elems(heap, middleware))) \o <<HandlerFrame(c.handler)>>

\* the global middleware composed around the handlers of routes only: the
\* not-found and the method-not-allowed handler run bare
RoutedChain_MatchedOnly(c) ==
    IF c.handler \in {NotFoundHandler, MethodNotAllowedHandler}
    THEN <<HandlerFrame(c.handler)>>
    ELSE MwFrames(Elems(heap, middleware)) \o <<HandlerFrame(c.handler)>>

\* the place of a middleware function in the order of creation
Created(id) ==
    CHOOSE i \in 1..Len(NextNames) :
        id \in {NextNames[i], FailNames[i], RespondNames[i]}
\* the global middleware bound when the route is registered: the route's
\* chain has the global middleware created before the route's own, and a
\* later Use does not reach it
RoutedChain_BoundAtAdd(c) ==
    MwFrames(SelectSeq(Elems(heap, middleware),
                       LAMBDA g : \A i \in 1..c.handler.mw.len :
                                     Created(g) < Created(Elems(heap, c.handler.mw)[i])))
    \o <<HandlerFrame(c.handler)>>

\* what ServeHTTP composes after the lookup: mux.middleware around c.Handler()
RoutedChain(c) == MwFrames(Elems(heap, middleware)) \o <<HandlerFrame(c.handler)>>

\* the user's handler has run: by its kind it responds, returns nil without
\* a response, or returns an error
RunUser(id, st) ==
    IF HandlerKind(id) = "silent" THEN st
    ELSE IF HandlerKind(id) = "http" THEN [st EXCEPT !.err = ErrBadRequest]
    ELSE IF HandlerKind(id) = "map"
    THEN [st EXCEPT !.err = NewHTTPErrorMessage(StatusBadRequest, "map")]
    ELSE IF HandlerKind(id) = "plain" THEN [st EXCEPT !.err = PlainError]
    ELSE IF HandlerKind(id) = "late"
    THEN [st EXCEPT !.c = WriteBody(st.c, StatusOK, "text"), !.err = PlainError]
    ELSE [st EXCEPT !.c = WriteBody(st.c, StatusOK, "text")]

RECURSIVE Run(_, _)
RECURSIVE RunRouted(_, _)
\* a middleware function has run: its event is in the log; by its kind it
\* returns an error, responds, or calls next with the rest of the chain
RunMw(fs, st) ==
    IF MwKind(fs[1].id) = "fail" THEN [st EXCEPT !.err = PlainError]
    ELSE IF MwKind(fs[1].id) = "respond"
    THEN [st EXCEPT !.c = NoContent(st.c, MwCode(fs[1].id))]
    ELSE Run(Tail(fs), [st EXCEPT !.c = Set(st.c, fs[1].id, "mw")])

\* after router.find left c1: the global middleware around c1's handler
RunRouted(st, c1) ==
    IF c1.panic THEN [st EXCEPT !.c = c1]
    ELSE Run(RoutedChain(c1), [st EXCEPT !.c = c1, !.log = Append(@, Event("find", c1))])

\* compose: run the first frame; a middleware passes the rest of the chain on
\* as next. st is the context, the log of what ran and the returned error.
Run(fs, st) ==
    IF fs[1].t = "mw"
    THEN RunMw(fs, [st EXCEPT !.log = Append(@, Event(fs[1].id, st.c))])
    ELSE IF fs[1].t = "router"
    THEN RunRouted(st, Find(nodes, st.c.request.Method, getPath(st.c.request), st.c))
    ELSE IF fs[1].t = "handler"
    THEN IF fs[1].h = NotFoundHandler THEN [st EXCEPT !.err = ErrNotFound]
         ELSE IF fs[1].h = MethodNotAllowedHandler
         THEN [st EXCEPT !.err = ErrMethodNotAllowed]
         ELSE Run(RouteChain(fs[1].h), st)
    ELSE \* the user's handler: records itself, then acts by its kind
         RunUser(fs[1].id, [st EXCEPT !.log = Append(@, Event(fs[1].id, st.c)),
                                      !.c = Set(st.c, "handler", fs[1].id)])

\* the error handler answering every error with 500
defaultHTTPErrorHandler_Always500(err, c) ==
    IF c.response.committed THEN c
    ELSE IF c.request.Method = HEAD THEN NoContent(c, StatusInternalServerError)
    ELSE WriteBody(c, StatusInternalServerError, "json:message")

\* the error handler responding although the response is committed
defaultHTTPErrorHandler_IgnoreCommitted(err, c) ==
    LET code == IF err.kind = "http" THEN err.code ELSE StatusInternalServerError
        msg == IF err.kind = "http" THEN err.msg ELSE "string"
        body == IF msg = "string" THEN "json:message" ELSE "json"
    IN  IF c.request.Method = HEAD THEN NoContent(c, code)
        ELSE WriteBody(c, code, body)

\* the error handler sending a string message as it is, not in an object
defaultHTTPErrorHandler_BareMessage(err, c) ==
    LET code == IF err.kind = "http" THEN err.code ELSE StatusInternalServerError
    IN  IF c.response.committed THEN c
        ELSE IF c.request.Method = HEAD THEN NoContent(c, code)
        ELSE WriteBody(c, code, "json")

\* the error handler sending the JSON body whatever the method
defaultHTTPErrorHandler_BodyOnHead(err, c) ==
    LET code == IF err.kind = "http" THEN err.code ELSE StatusInternalServerError
        msg == IF err.kind = "http" THEN err.msg ELSE "string"
        body == IF msg = "string" THEN "json:message" ELSE "json"
    IN  IF c.response.committed THEN c
        ELSE WriteBody(c, code, body)

\* the error handler testing Committed for HEAD requests only
defaultHTTPErrorHandler_CommittedHeadOnly(err, c) ==
    LET code == IF err.kind = "http" THEN err.code ELSE StatusInternalServerError
        msg == IF err.kind = "http" THEN err.msg ELSE "string"
        body == IF msg = "string" THEN "json:message" ELSE "json"
    IN  IF c.request.Method = HEAD
        THEN IF c.response.committed THEN c ELSE NoContent(c, code)
        ELSE WriteBody(c, code, body)

\* Mux.defaultHTTPErrorHandler
defaultHTTPErrorHandler(err, c) ==
    LET code == IF err.kind = "http" THEN err.code ELSE StatusInternalServerError
        msg == IF err.kind = "http" THEN err.msg ELSE "string"
        body == IF msg = "string" THEN "json:message" ELSE "json"
    IN  IF c.response.committed THEN c
        ELSE IF c.request.Method = HEAD THEN NoContent(c, code)
        ELSE WriteBody(c, code, body)

\* the error c.NoContent or c.JSON returns when the response cannot be written
WriteError == [kind |-> "write", code |-> 0, msg |-> "nil"]

\* Mux.defaultHTTPErrorHandler when the write of its response fails: the
\* status went out before the failure (sent) or nothing did; c.NoContent or
\* c.JSON returns the error and the handler assigns it to _
defaultHTTPErrorHandlerWriteFails(err, c, sent) ==
    LET code == IF err.kind = "http" THEN err.code ELSE StatusInternalServerError
    IN  IF c.response.committed THEN [c |-> c, dropped |-> <<>>]
        ELSE [c |-> IF sent THEN WriteHeader(c, code) ELSE c,
              dropped |-> <<WriteError>>]

\* ------------------------------------------------------------ registration
Procs == {1, 2}
\* what a process knows of its request: the context it holds, what ran, the
\* error the chain returned, the errors mux.HTTPErrorHandler was called with
\* (eh), the errors the error handler got back from its writes and assigned
\* to _ (dropped), the response as the chain left it (out) and the response
\* when ServeHTTP returns (rec)
IdleReq ==
    [pc |-> "idle", c |-> 0, log |-> <<>>, err |-> NoError, eh |-> <<>>,
     dropped |-> <<>>, out |-> NewResponse, rec |-> NewResponse]
\* registration happens while no request is being served
Quiet == \A p \in Procs : reqs[p].pc = "idle"

Put(m, key, val) == [k \in DOMAIN m \cup {key} |-> IF k = key THEN val ELSE m[k]]

\* The history of the calls, for the bounds and for what the properties refer
\* to: per registered (method, path) how often it was registered, the last
\* handler, the group it went through with that group's chain at that moment
\* and the inline middleware; per group its parent, the middleware it was
\* created with and its effective chain; the middleware given to Use and Pre.
CountAdd(method, path, h, g, ms) ==
    LET key == <<method, path>>
    IN  [calls EXCEPT
           !.adds = @ + 1, !.mws = @ + Len(ms),
           !.regs = Put(@, key,
                        [n |-> IF key \in DOMAIN @ THEN @[key].n + 1 ELSE 1,
                         h |-> h, group |-> g,
                         chain |-> IF g = 0 THEN <<>> ELSE calls.eff[g],
                         inline |-> ms])]
CountUse(ms) == [calls EXCEPT !.uses = @ + 1, !.mws = @ + Len(ms)]
CountGroup(parent, ms) ==
    [CountUse(ms) EXCEPT
       !.parent = Append(@, parent),
       !.own = Append(@, ms),
       !.eff = Append(@, IF parent = 0 THEN ms ELSE calls.eff[parent] \o ms)]

\* Add with the closures reading the middleware of the latest Add
Add_SharedMw(method, path, handler, mws) ==
    LET ns == Insert(nodes, Root(method), path, [h |-> handler, mw |-> mws])
    IN  [nodes |-> [i \in DOMAIN ns |->
                       IF ns[i].handler = NoHandler THEN ns[i]
                       ELSE [ns[i] EXCEPT !.handler.mw = mws]],
         routes |-> Put(routes, method \o path,
                        [Method |-> method, Path |-> path, Name |-> handler]),
         maxParam |-> Max(maxParam, Len(PieceNames(Pieces(path))))]

\* Add with every route put into the GET tree, whatever its method
Add_GetTree(method, path, handler, mws) ==
    [nodes |-> Insert(nodes, Root(GET), path, [h |-> handler, mw |-> mws]),
     routes |-> Put(routes, method \o path,
                    [Method |-> method, Path |-> path, Name |-> handler]),
     maxParam |-> Max(maxParam, Len(PieceNames(Pieces(path))))]

\* Add with the registry keyed by the handler as well as by method and path
Add_KeyedByHandler(method, path, handler, mws) ==
    [nodes |-> Insert(nodes, Root(method), path, [h |-> handler, mw |-> mws]),
     routes |-> Put(routes, method \o path \o <<handler>>,
                    [Method |-> method, Path |-> path, Name |-> handler]),
     maxParam |-> Max(maxParam, Len(PieceNames(Pieces(path))))]

\* Add refusing a template with a parameter when the tree holds a parameter
\* of a name the template does not use, and a wildcard template that is
\* registered already
Add_RejectRenamed(method, path, handler, mws) ==
    LET names == {PieceNames(Pieces(path))[i] :
                     i \in 1..Len(PieceNames(Pieces(path)))}
    IN  IF \/ /\ names \ {<<"*">>} # {}
              /\ \E i \in 1..Len(nodes) :
                    nodes[i].kind = "p" /\ nodes[i].prefix \notin names
           \/ <<"*">> \in names /\ method \o path \in DOMAIN routes
        THEN [nodes |-> nodes, routes |-> routes, maxParam |-> maxParam]
        ELSE [nodes |-> Insert(nodes, Root(method), path, [h |-> handler, mw |-> mws]),
              routes |-> Put(routes, method \o path,
                             [Method |-> method, Path |-> path, Name |-> handler]),
              maxParam |-> Max(maxParam, Len(PieceNames(Pieces(path))))]

\* Add with the Route recorded for every method and the tree left alone for
\* POST
Add_RegistryOnly(method, path, handler, mws) ==
    [nodes |-> IF method = POST THEN nodes
               ELSE Insert(nodes, Root(method), path, [h |-> handler, mw |-> mws]),
     routes |-> Put(routes, method \o path,
                    [Method |-> method, Path |-> path, Name |-> handler]),
     maxParam |-> Max(maxParam, Len(PieceNames(Pieces(path))))]

\* Add with the route inserted below the root of every method
Add_EveryMethod(method, path, handler, mws) ==
    [nodes |-> Insert(Insert(Insert(nodes, Root(GET), path, [h |-> handler, mw |-> mws]),
                             Root(POST), path, [h |-> handler, mw |-> mws]),
                      Root(HEAD), path, [h |-> handler, mw |-> mws]),
     routes |-> Put(routes, method \o path,
                    [Method |-> method, Path |-> path, Name |-> handler]),
     maxParam |-> Max(maxParam, Len(PieceNames(Pieces(path))))]

\* Mux.Add: the route's closure goes into the tree, the Route into the registry
Add(method, path, handler, mws) ==
    [nodes |-> Insert(nodes, Root(method), path, [h |-> handler, mw |-> mws]),
     routes |-> Put(routes, method \o path,
                    [Method |-> method, Path |-> path, Name |-> handler]),
     maxParam |-> Max(maxParam, Len(PieceNames(Pieces(path))))]

\* mux.Add(method, path, h, ms...) called with the middleware listed in the call
MuxAdd(method, path, h, ms) ==
    /\ Quiet /\ calls.adds < MaxAdds
    /\ \E v \in {MakeSlice(heap, Len(ms), ms)} :
       \E a \in {Add(method, path, h, v.s)} :
           /\ heap' = v.heap
           /\ nodes' = a.nodes
           /\ routes' = a.routes
           /\ maxParam' = a.maxParam
    /\ calls' = CountAdd(method, path, h, 0, ms)
    /\ UNCHANGED <<premiddleware, middleware, groups, ctxs, pool, reqs>>

\* Mux.Use
MuxUse(ms) ==
    /\ Quiet /\ calls.uses < MaxUses
    /\ LET a == AppendSlice(heap, middleware, ms)
       IN  heap' = a.heap /\ middleware' = a.s
    /\ calls' = [CountUse(ms) EXCEPT !.global = @ \o ms]
    /\ UNCHANGED <<nodes, routes, maxParam, premiddleware, groups, ctxs, pool, reqs>>

\* Mux.Pre
MuxPre(ms) ==
    /\ Quiet /\ calls.uses < MaxUses
    /\ LET a == AppendSlice(heap, premiddleware, ms)
       IN  heap' = a.heap /\ premiddleware' = a.s
    /\ calls' = [CountUse(ms) EXCEPT !.pre = @ \o ms]
    /\ UNCHANGED <<nodes, routes, maxParam, middleware, groups, ctxs, pool, reqs>>

\* ------------------------------------------------------------------ groups
\* Group with the middleware left out of the new group
NewGroup_NoUse(hp, mw, prefix, m) ==
    [heap |-> hp, middleware |-> mw, g |-> [prefix |-> prefix, middleware |-> NilSlice]]

\* Group with the middleware given to the mux's Use, not to the group's
NewGroup_UseOnMux(hp, mw, prefix, m) ==
    LET a == AppendSlice(hp, mw, Elems(hp, m))
    IN  [heap |-> a.heap, middleware |-> a.s,
         g |-> [prefix |-> prefix, middleware |-> NilSlice]]

\* Mux.Group: a new Group with the prefix, then g.Use(m...) on its empty list;
\* the mux's own middleware is left as it is
NewGroup(hp, mw, prefix, m) ==
    LET a == AppendSlice(hp, NilSlice, Elems(hp, m))
    IN  [heap |-> a.heap, middleware |-> mw,
         g |-> [prefix |-> prefix, middleware |-> a.s]]

\* mux.Group(prefix, ms...)
MuxGroup(prefix, ms) ==
    /\ Quiet /\ calls.uses < MaxUses
    /\ \E v \in {MakeSlice(heap, Len(ms), ms)} :
       \E n \in {NewGroup(v.heap, middleware, prefix, v.s)} :
           heap' = n.heap /\ middleware' = n.middleware /\ groups' = Append(groups, n.g)
    /\ calls' = CountGroup(0, ms)
    /\ UNCHANGED <<nodes, routes, maxParam, premiddleware, ctxs, pool, reqs>>

\* Group.Use: the middleware is appended to the group's own list
GroupUse(g, ms) ==
    /\ Quiet /\ calls.uses < MaxUses
    /\ g \in 1..Len(groups)
    /\ LET a == AppendSlice(heap, groups[g].middleware, ms)
       IN  heap' = a.heap /\ groups' = [groups EXCEPT ![g].middleware = a.s]
    /\ calls' = [CountUse(ms) EXCEPT !.eff[g] = @ \o ms]
    /\ UNCHANGED <<nodes, routes, maxParam, premiddleware, middleware, ctxs, pool, reqs>>

\* the parent's list copied into a fresh array, then the new middleware
CopyAppend(hp, s, ms) == MakeSlice(hp, s.len + Len(ms), Elems(hp, s) \o ms)

\* Group.Group: a sub-group under the concatenated prefix
GroupGroup(g, prefix, ms) ==
    /\ Quiet /\ calls.uses < MaxUses
    /\ g \in 1..Len(groups)
    /\ \E m \in {CopyAppend(heap, groups[g].middleware, ms)} :
       \E n \in {NewGroup(m.heap, middleware, groups[g].prefix \o prefix, m.s)} :
           heap' = n.heap /\ middleware' = n.middleware /\ groups' = Append(groups, n.g)
    /\ calls' = CountGroup(g, ms)
    /\ UNCHANGED <<nodes, routes, maxParam, premiddleware, ctxs, pool, reqs>>

\* Group.Add: the route goes to the mux under prefix+path, with the group's
\* middleware and the inline middleware combined into a new slice
GroupAdd(g, method, path, h, ms) ==
    /\ Quiet /\ calls.adds < MaxAdds
    /\ g \in 1..Len(groups)
    /\ \E m \in {CopyAppend(heap, groups[g].middleware, ms)} :
       \E a \in {Add(method, groups[g].prefix \o path, h, m.s)} :
           /\ heap' = m.heap
           /\ nodes' = a.nodes
           /\ routes' = a.routes
           /\ maxParam' = a.maxParam
    /\ calls' = CountAdd(method, groups[g].prefix \o path, h, g, ms)
    /\ UNCHANGED <<premiddleware, middleware, groups, ctxs, pool, reqs>>

\* Mux.Routes: the registered routes
Routes == {routes[k] : k \in DOMAIN routes}

\* ----------------------------------------------------------------- serving
\* Acquire with a pooled context handed out as it was put back, only the
\* request replaced
Acquire_NoReset(p, r) ==
    /\ reqs[p].pc = "idle" /\ calls.reqs < MaxReqs
    /\ \/ \E i \in pool :
             /\ pool' = pool \ {i}
             /\ ctxs' = [ctxs EXCEPT ![i].request = r]
             /\ reqs' = [reqs EXCEPT ![p] = [IdleReq EXCEPT !.pc = "acquired", !.c = i]]
       \/ /\ Len(ctxs) < MaxCtx
          /\ pool' = pool
          /\ ctxs' = Append(ctxs, Reset(NewContext(NoRequest), r))
          /\ reqs' = [reqs EXCEPT ![p] =
                         [IdleReq EXCEPT !.pc = "acquired", !.c = Len(ctxs) + 1]]
    /\ calls' = [calls EXCEPT !.reqs = @ + 1]
    /\ UNCHANGED <<nodes, routes, maxParam, premiddleware, middleware, groups, heap>>

\* Acquire with a pool whose Get hands out an idle context and keeps it
Acquire_KeepPooled(p, r) ==
    /\ reqs[p].pc = "idle" /\ calls.reqs < MaxReqs
    /\ \/ \E i \in pool :
             /\ pool' = pool
             /\ ctxs' = [ctxs EXCEPT ![i] = Reset(@, r)]
             /\ reqs' = [reqs EXCEPT ![p] = [IdleReq EXCEPT !.pc = "acquired", !.c = i]]
       \/ /\ Len(ctxs) < MaxCtx
          /\ pool' = pool
          /\ ctxs' = Append(ctxs, Reset(NewContext(NoRequest), r))
          /\ reqs' = [reqs EXCEPT ![p] =
                         [IdleReq EXCEPT !.pc = "acquired", !.c = Len(ctxs) + 1]]
    /\ calls' = [calls EXCEPT !.reqs = @ + 1]
    /\ UNCHANGED <<nodes, routes, maxParam, premiddleware, middleware, groups, heap>>

\* ServeHTTP, first part: c := mux.pool.Get(); c.reset(r, w).  The pool hands
\* out an idle context or a new one from mux.NewContext.
Acquire(p, r) ==
    /\ reqs[p].pc = "idle" /\ calls.reqs < MaxReqs
    /\ \/ \E i \in pool :
             /\ pool' = pool \ {i}
             /\ ctxs' = [ctxs EXCEPT ![i] = Reset(@, r)]
             /\ reqs' = [reqs EXCEPT ![p] = [IdleReq EXCEPT !.pc = "acquired", !.c = i]]
       \/ /\ Len(ctxs) < MaxCtx
          /\ pool' = pool
          /\ ctxs' = Append(ctxs, Reset(NewContext(NoRequest), r))
          /\ reqs' = [reqs EXCEPT ![p] =
                         [IdleReq EXCEPT !.pc = "acquired", !.c = Len(ctxs) + 1]]
    /\ calls' = [calls EXCEPT !.reqs = @ + 1]
    /\ UNCHANGED <<nodes, routes, maxParam, premiddleware, middleware, groups, heap>>

\* the lookup done first and the pre-middleware run like global middleware
Dispatch_LookupFirst(c) ==
    LET c1 == Find(nodes, c.request.Method, getPath(c.request), c)
    IN  IF c1.panic THEN [c |-> c1, log |-> <<>>, err |-> NoError]
        ELSE IF premiddleware = NilSlice
        THEN Run(RoutedChain(c1),
                 [c |-> c1, log |-> <<Event("find", c1)>>, err |-> NoError])
        ELSE Run(MwFrames(Elems(heap, premiddleware)) \o RoutedChain(c1),
                 [c |-> c1, log |-> <<Event("find", c1)>>, err |-> NoError])

\* the chain ServeHTTP builds and runs on the acquired context
Dispatch(c) ==
    IF premiddleware = NilSlice
    THEN RunRouted([c |-> c, log |-> <<>>, err |-> NoError],
                   Find(nodes, c.request.Method, getPath(c.request), c))
    ELSE Run(MwFrames(Elems(heap, premiddleware)) \o <<RouterFrame>>,
             [c |-> c, log |-> <<>>, err |-> NoError])

\* Serve with the chain's error dropped, the error handler never called
Serve_DropError(p) ==
    /\ reqs[p].pc = "acquired"
    /\ \E st \in {Dispatch(ctxs[reqs[p].c])} :
           /\ ctxs' = [ctxs EXCEPT ![reqs[p].c] = st.c]
           /\ reqs' = [reqs EXCEPT ![p].pc = IF st.c.panic THEN "panic" ELSE "served",
                                   ![p].log = st.log,
                                   ![p].err = st.err,
                                   ![p].out = st.c.response,
                                   ![p].rec = st.c.response]
    /\ UNCHANGED <<nodes, routes, maxParam, premiddleware, middleware, groups,
                   heap, pool, calls>>

\* Serve with the not-found and method-not-allowed outcomes answered by the
\* mux itself; only the other failures go to the error handler
Serve_OwnNotFound(p) ==
    /\ reqs[p].pc = "acquired"
    /\ \E st \in {Dispatch(ctxs[reqs[p].c])} :
       \E c2 \in {IF st.err # NoError /\ ~st.c.panic
                   THEN defaultHTTPErrorHandler(st.err, st.c) ELSE st.c} :
           /\ ctxs' = [ctxs EXCEPT ![reqs[p].c] = c2]
           /\ reqs' = [reqs EXCEPT ![p].pc = IF c2.panic THEN "panic" ELSE "served",
                                   ![p].log = st.log,
                                   ![p].err = st.err,
                                   ![p].eh = IF st.err \in {NoError, ErrNotFound,
                                                            ErrMethodNotAllowed}
                                                \/ st.c.panic
                                             THEN <<>> ELSE <<st.err>>,
                                   ![p].out = st.c.response,
                                   ![p].rec = c2.response]
    /\ UNCHANGED <<nodes, routes, maxParam, premiddleware, middleware, groups,
                   heap, pool, calls>>

\* Serve with a lookup that keeps the text it matched last in the root of the
\* GET tree
Serve_ReordersChildren(p) ==
    /\ reqs[p].pc = "acquired"
    /\ \E st \in {Dispatch(ctxs[reqs[p].c])} :
       \E c2 \in {IF st.err # NoError /\ ~st.c.panic
                   THEN defaultHTTPErrorHandler(st.err, st.c) ELSE st.c} :
           /\ ctxs' = [ctxs EXCEPT ![reqs[p].c] = c2]
           /\ reqs' = [reqs EXCEPT ![p].pc = IF c2.panic THEN "panic" ELSE "served",
                                   ![p].log = st.log,
                                   ![p].err = st.err,
                                   ![p].eh = IF st.err # NoError /\ ~st.c.panic
                                             THEN <<st.err>> ELSE <<>>,
                                   ![p].out = st.c.response,
                                   ![p].rec = c2.response]
    /\ nodes' = [nodes EXCEPT ![Root(GET)].prefix = <<"/">>]
    /\ UNCHANGED <<routes, maxParam, premiddleware, middleware, groups,
                   heap, pool, calls>>

\* ServeHTTP, middle part: lookup, composition, execution, error handler
Serve(p) ==
    /\ reqs[p].pc = "acquired"
    /\ \E st \in {Dispatch(ctxs[reqs[p].c])} :
       \E c2 \in {IF st.err # NoError /\ ~st.c.panic
                   THEN defaultHTTPErrorHandler(st.err, st.c) ELSE st.c} :
           /\ ctxs' = [ctxs EXCEPT ![reqs[p].c] = c2]
           /\ reqs' = [reqs EXCEPT ![p].pc = IF c2.panic THEN "panic" ELSE "served",
                                   ![p].log = st.log,
                                   ![p].err = st.err,
                                   ![p].eh = IF st.err # NoError /\ ~st.c.panic
                                             THEN <<st.err>> ELSE <<>>,
                                   ![p].out = st.c.response,
                                   ![p].rec = c2.response]
    /\ UNCHANGED <<nodes, routes, maxParam, premiddleware, middleware, groups,
                   heap, pool, calls>>

\* ServeHTTP, middle part, on a connection that fails after the chain has run:
\* the error handler's write of the response fails.  mux.HTTPErrorHandler has
\* no result and ServeHTTP goes on to the Put.
ServeBroken(p) ==
    /\ reqs[p].pc = "acquired"
    /\ \E st \in {Dispatch(ctxs[reqs[p].c])} : \E sent \in BOOLEAN :
       \E r \in {IF st.err # NoError /\ ~st.c.panic
                  THEN defaultHTTPErrorHandlerWriteFails(st.err, st.c, sent)
                  ELSE [c |-> st.c, dropped |-> <<>>]} :
           /\ ctxs' = [ctxs EXCEPT ![reqs[p].c] = r.c]
           /\ reqs' = [reqs EXCEPT ![p].pc = IF r.c.panic THEN "panic" ELSE "served",
                                   ![p].log = st.log,
                                   ![p].err = st.err,
                                   ![p].eh = IF st.err # NoError /\ ~st.c.panic
                                             THEN <<st.err>> ELSE <<>>,
                                   ![p].dropped = r.dropped,
                                   ![p].out = st.c.response,
                                   ![p].rec = r.c.response]
    /\ UNCHANGED <<nodes, routes, maxParam, premiddleware, middleware, groups,
                   heap, pool, calls>>

\* Release that returns early, before the Put, when the chain failed
Release_OnlyOnSuccess(p) ==
    /\ reqs[p].pc = "served" /\ reqs[p].err = NoError
    /\ pool' = pool \cup {reqs[p].c}
    /\ reqs' = [reqs EXCEPT ![p] = IdleReq]
    /\ calls' = [calls EXCEPT !.puts = @ + 1]
    /\ UNCHANGED <<nodes, routes, maxParam, premiddleware, middleware, groups,
                   heap, ctxs>>

\* Release with the context reset before the Put
Release_ResetFirst(p) ==
    /\ reqs[p].pc = "served"
    /\ pool' = pool \cup {reqs[p].c}
    /\ ctxs' = [ctxs EXCEPT ![reqs[p].c] = Reset(@, NoRequest)]
    /\ reqs' = [reqs EXCEPT ![p] = IdleReq]
    /\ calls' = [calls EXCEPT !.puts = @ + 1]
    /\ UNCHANGED <<nodes, routes, maxParam, premiddleware, middleware, groups, heap>>

\* ServeHTTP, last part: mux.pool.Put(c); calls.puts counts the Puts
Release(p) ==
    /\ reqs[p].pc = "served"
    /\ pool' = pool \cup {reqs[p].c}
    /\ reqs' = [reqs EXCEPT ![p] = IdleReq]
    /\ calls' = [calls EXCEPT !.puts = @ + 1]
    /\ UNCHANGED <<nodes, routes, maxParam, premiddleware, middleware, groups,
                   heap, ctxs>>

\* the status the client sees: 200 when the handler wrote none
Code(rec) == IF rec.committed THEN rec.status ELSE StatusOK

\* ---------------------------------------------------------- specifications
\* NewServeMux: an empty tree per method, no routes, no middleware
Init ==
    /\ nodes = [i \in 1..Len(Methods) |-> NewNode("s", <<>>)]
    /\ routes = [k \in {} |-> 0]
    /\ maxParam = 0
    /\ premiddleware = NilSlice
    /\ middleware = NilSlice
    /\ groups = <<>>
    /\ heap = <<>>
    /\ ctxs = <<>>
    /\ pool = {}
    /\ reqs = [p \in Procs |-> IdleReq]
    /\ calls = [adds |-> 0, uses |-> 0, reqs |-> 0, puts |-> 0, mws |-> 0,
                regs |-> [k \in {} |-> 0], parent |-> <<>>, own |-> <<>>,
                eff |-> <<>>, global |-> <<>>, pre |-> <<>>]

Req(method, path) == [Method |-> method, URL |-> [Path |-> path, RawPath |-> <<>>]]
\* a request whose target has an escaped "/": net/url keeps the target as
\* RawPath next to the decoded Path
RawReq(method, path, raw) ==
    [Method |-> method, URL |-> [Path |-> path, RawPath |-> raw]]

\* registration completes before the mux serves its first request
Registering == calls.reqs = 0
\* every registration binds a handler function of its own
HandlerNames == <<"h1", "h2", "h3", "h4", "h5", "h6", "h7", "h8">>
NextHandler == HandlerNames[calls.adds + 1]

\* templates and requests of the routing runs
Templates ==
    { <<"/", "u", "/", ":", "i", "d">>,
      <<"/", "u", "/", "s">>,
      <<"/", "u", "/", ":", "u", "/", "f", "/", ":", "f">>,
      <<"/", "i", "/", "*">> }
PostTemplates == { <<"/", "u", "/", "s">> }
Requests ==
    { RawReq(GET, <<"/", "u", "/", "a", "/", "b">>,
                  <<"/", "u", "/", "a", "%", "2", "F", "b">>),
      Req(GET, <<"/", "u", "/", "s">>),
      Req(GET, <<"/", "u", "/", "1", "/", "f", "/", "2">>),
      RawReq(GET, <<"/", "i", "/", "a", "/", "b", "/", "c">>,
                  <<"/", "i", "/", "a", "/", "b", "%", "2", "F", "c">>),
      Req(POST, <<"/", "u", "/", "s">>) }

AddRoute ==
    /\ Registering
    /\ \/ \E t \in Templates : MuxAdd(GET, t, NextHandler, <<>>)
       \/ \E t \in PostTemplates : MuxAdd(POST, t, NextHandler, <<>>)
Request == \E r \in Requests : Acquire(1, r)
ServeRequest == Serve(1)
ReleaseContext == Release(1)

Next == AddRoute \/ Request \/ ServeRequest \/ ReleaseContext

Spec == Init /\ [][Next]_vars

\* ----------------------------------------------- the concurrent runs
\* net/http calls ServeHTTP on one goroutine per connection: the requests of
\* the processes interleave step by step.  A goroutine that acquired a context
\* runs its chain and reaches the Put, whatever the others do: weak fairness
\* of each process's Serve and Release (handlers that never return are not
\* modelled).
ConcTemplates == { <<"/", "u", "/", ":", "i", "d">>, <<"/", "u", "/", "s">> }
ConcRequests ==
    { Req(GET, <<"/", "u", "/", "s">>), Req(POST, <<"/", "u", "/", "s">>) }

ConcAdd ==
    /\ Registering /\ calls.adds < MaxConcAdds
    /\ \E t \in ConcTemplates : MuxAdd(GET, t, NextHandler, <<>>)
\* a global middleware that calls next, registered before the requests
ConcUse ==
    /\ Registering /\ calls.uses < MaxConcUses
    /\ MuxUse(<<NextNames[calls.mws + 1]>>)
ConcRequest == \E p \in Procs : \E r \in ConcRequests : Acquire(p, r)
ConcServe == \E p \in Procs : Serve(p)
ConcRelease == \E p \in Procs : Release(p)

NextConc == ConcAdd \/ ConcUse \/ ConcRequest \/ ConcServe \/ ConcRelease

\* Serve(p) is enabled exactly while process p is at "acquired" and every
\* Serve(p) step leaves that position, so WF_vars(Serve(p)) is the formula
\* below; it is stated in this form because it is evaluated on states alone.
ServeFair(p) == []<>(reqs[p].pc # "acquired")

SpecConc ==
    /\ Init /\ [][NextConc]_vars
    /\ \A p \in Procs : ServeFair(p) /\ WF_vars(Release(p))

\* ----------------------------------------------- the middleware runs
\* Every middleware function registered is a new one, named by its kind and
\* by the number of functions created before it; every group and every route
\* has a prefix or path of its own.
NewMw(kind) ==
    IF kind = "fail" THEN FailNames[calls.mws + 1]
    ELSE IF kind = "respond" THEN RespondNames[calls.mws + 1]
    ELSE NextNames[calls.mws + 1]
GroupPrefixes == << <<"/", "a">>, <<"/", "b">>, <<"/", "c">>, <<"/", "d">>, <<"/", "e">> >>
RoutePaths == << <<"/", "1">>, <<"/", "2">>, <<"/", "3">>, <<"/", "4">>, <<"/", "5">> >>
NextPrefix == GroupPrefixes[Len(groups) + 1]
NextPath == RoutePaths[calls.adds + 1]
Unknown == <<"/", "n", "f">>

\* registration completes before serving, within the run's budget of calls
MwRegistering == Registering /\ calls.uses + calls.adds < MaxMwOps

UseGlobal == MwRegistering /\ \E k \in {"next", "fail"} : MuxUse(<<NewMw(k)>>)
UsePre == MwRegistering /\ \E k \in {"next", "fail"} : MuxPre(<<NewMw(k)>>)
MakeGroup == MwRegistering /\ MuxGroup(NextPrefix, <<NewMw("next")>>)
MakeSubGroup ==
    MwRegistering /\ \E g \in 1..Len(groups) : GroupGroup(g, NextPrefix, <<NewMw("next")>>)
UseGroup == MwRegistering /\ \E g \in 1..Len(groups) : GroupUse(g, <<NewMw("next")>>)
AddGroupRoute ==
    /\ MwRegistering
    /\ \E g \in 1..Len(groups) :
          \/ GroupAdd(g, GET, NextPath, NextHandler, <<>>)
          \/ \E k \in {"next", "respond"} :
                GroupAdd(g, GET, NextPath, NextHandler, <<NewMw(k)>>)
AddMuxRoute == MwRegistering /\ MuxAdd(GET, NextPath, NextHandler, <<>>)
\* requests: GET for every registered route, POST for the route registered
\* first, GET for a path that is not registered
RequestMw ==
    \E r \in {Req(GET, rt.Path) : rt \in Routes}
              \cup {Req(POST, rt.Path) : rt \in {x \in Routes : x.Name = HandlerNames[1]}}
              \cup {Req(GET, Unknown)} :
        calls.reqs < MaxMwReqs /\ Acquire(1, r)

NextMw ==
    \/ UseGlobal \/ UsePre \/ MakeGroup \/ MakeSubGroup \/ UseGroup
    \/ AddGroupRoute \/ AddMuxRoute
    \/ RequestMw \/ ServeRequest \/ ReleaseContext

SpecMw == Init /\ [][NextMw]_vars

\* ----------------------------------------------- the error runs
\* One route whose handler is of any kind, registered for GET or HEAD, at
\* most one global middleware of any kind, and a GET or HEAD request for the
\* route's path or for an unregistered path.
ErrPath == <<"/", "u", "/", "s">>
HandlerOfKind(kind, n) ==
    IF kind = "silent" THEN SilentNames[n]
    ELSE IF kind = "http" THEN HTTPErrorNames[n]
    ELSE IF kind = "map" THEN MapErrorNames[n]
    ELSE IF kind = "plain" THEN PlainErrorNames[n]
    ELSE IF kind = "late" THEN LateErrorNames[n]
    ELSE HandlerNames[n]
HandlerKinds == {"ok", "silent", "http", "map", "plain", "late"}

ErrAdd ==
    /\ Registering /\ calls.adds < MaxErrAdds
    /\ \E m \in {GET, HEAD} : \E k \in HandlerKinds :
          MuxAdd(m, ErrPath, HandlerOfKind(k, calls.adds + 1), <<>>)
ErrUse ==
    /\ Registering /\ calls.uses < MaxErrUses
    /\ \E k \in {"next", "fail", "respond"} : MuxUse(<<NewMw(k)>>)
ErrRequest ==
    /\ calls.reqs < MaxErrReqs
    /\ \E m \in {GET, HEAD} : \E path \in {ErrPath, Unknown} :
          Acquire(1, Req(m, path))

NextErr == ErrAdd \/ ErrUse \/ ErrRequest \/ ServeRequest \/ ReleaseContext

SpecErr == Init /\ [][NextErr]_vars

\* ----------------------------------------------- the failing write runs
\* The error runs with connections that may fail before the error handler
\* writes its response.
ServeBrokenWriter == ServeBroken(1)

NextWrite ==
    ErrAdd \/ ErrUse \/ ErrRequest \/ ServeRequest \/ ServeBrokenWriter
    \/ ReleaseContext

SpecWrite == Init /\ [][NextWrite]_vars

\* ----------------------------------------------- the tree runs
\* Templates that overlap in their static text (so that nodes are split), a
\* static and a param route and a wildcard below one node, and paths that
\* lead the lookup into a branch without a handler for them.
TreeTemplates ==
    { <<"/", "a", "/", "b">>,
      <<"/", "a", "x">>,
      <<"/", "a", "/", ":", "x", "/", "c">>,
      <<"/", "a", "/", "*">> }
TreePaths ==
    { <<"/", "a", "/", "b">>,
      <<"/", "a", "x">>,
      <<"/", "a", "/", "b", "/", "c">>,
      <<"/", "a", "/", "b", "/", "d">>,
      <<"/", "a", "/", "q", "/", "c">> }

TreeAdd ==
    /\ Registering /\ calls.adds < MaxTreeAdds
    /\ \E t \in TreeTemplates : MuxAdd(GET, t, NextHandler, <<>>)
TreeRequest ==
    /\ calls.reqs < MaxTreeReqs
    /\ \E path \in TreePaths : Acquire(1, Req(GET, path))

NextTree == TreeAdd \/ TreeRequest \/ ServeRequest \/ ReleaseContext

SpecTree == Init /\ [][NextTree]_vars

\* ----------------------------------------------- the inline runs
\* Routes registered on the mux or on a group with two inline middleware
\* functions each, the second of which may respond without calling next;
\* global and group middleware that call next.
InlinePair(k) ==
    <<NextNames[calls.mws + 1],
      IF k = "respond" THEN RespondNames[calls.mws + 2] ELSE NextNames[calls.mws + 2]>>
InlineRegistering == Registering /\ calls.uses + calls.adds < MaxInlineOps

InlineUse == InlineRegistering /\ MuxUse(<<NewMw("next")>>)
InlineGroup == InlineRegistering /\ MuxGroup(NextPrefix, <<NewMw("next")>>)
InlineAdd ==
    /\ InlineRegistering
    /\ \E k \in {"next", "respond"} :
          \/ MuxAdd(GET, NextPath, NextHandler, InlinePair(k))
          \/ \E g \in 1..Len(groups) :
                GroupAdd(g, GET, NextPath, NextHandler, InlinePair(k))
InlineRequest ==
    /\ calls.reqs < MaxInlineReqs
    /\ \E rt \in Routes : Acquire(1, Req(GET, rt.Path))

NextInline ==
    InlineUse \/ InlineGroup \/ InlineAdd \/ InlineRequest \/ ServeRequest
    \/ ReleaseContext

SpecInline == Init /\ [][NextInline]_vars

\* ----------------------------------------------- the reuse runs
\* Routes with one and with two parameters and a wildcard, and requests served
\* one after the other, the later on the context the earlier one used (or on
\* a new one, when the pool has let the idle context go): paths served by
\* each route and a path that ends in a dead end after a value was recorded.
ReuseTemplates ==
    { <<"/", "u", "/", ":", "i", "d">>,
      <<"/", "u", "/", ":", "u", "/", "f", "/", ":", "f">>,
      <<"/", "i", "/", "*">> }
ReusePaths ==
    { <<"/", "u", "/", "7">>,
      <<"/", "u", "/", "1", "/", "f", "/", "2">>,
      <<"/", "u", "/", "9", "/", "g">>,
      <<"/", "i", "/", "a", "/", "b">> }

ReuseAdd ==
    /\ Registering /\ calls.adds < MaxReuseAdds
    /\ \E t \in ReuseTemplates : MuxAdd(GET, t, NextHandler, <<>>)
ReuseRequest ==
    /\ calls.reqs < MaxReuseReqs
    /\ \E path \in ReusePaths : Acquire(1, Req(GET, path))

NextReuse == ReuseAdd \/ ReuseRequest \/ ServeRequest \/ ReleaseContext

SpecReuse == Init /\ [][NextReuse]_vars

\* ------------------------------------------------------------- properties
\* what a request in service sees
Served(p) == reqs[p].pc = "served"
Ctx(p) == ctxs[reqs[p].c]
MethodOf(p) == Ctx(p).request.Method
PathOf(p) == getPath(Ctx(p).request)
\* the templates registered under a method, and the last registration of one
Registered(m) == {k[2] : k \in {x \in DOMAIN calls.regs : x[1] = m}}
Reg(m, t) == calls.regs[<<m, t>>]

RECURSIVE Match(_, _)
\* a template's pieces against a path, read off the template alone: static
\* text is matched literally, a parameter takes the text up to the next "/",
\* the wildcard takes all that is left
Match(ps, path) ==
    IF ps = <<>> THEN [ok |-> path = <<>>, vals |-> <<>>]
    ELSE IF ps[1].k = "s"
    THEN IF IsPrefix(ps[1].v, path) THEN Match(Tail(ps), Drop(path, Len(ps[1].v)))
         ELSE [ok |-> FALSE, vals |-> <<>>]
    ELSE IF path = <<>> THEN [ok |-> FALSE, vals |-> <<>>]
    ELSE IF ps[1].k = "a" THEN [ok |-> Len(ps) = 1, vals |-> <<path>>]
    ELSE LET k == SegLen(path)
             m == Match(Tail(ps), Drop(path, k))
         IN  [ok |-> m.ok, vals |-> <<Take(path, k)>> \o m.vals]
TemplateMatches(t, path) == Match(Pieces(t), path).ok
TemplateValues(t, path) == Match(Pieces(t), path).vals
TemplateNames(t) == PieceNames(Pieces(t))

RECURSIVE Tokens(_)
\* a template as its characters, each parameter and the wildcard one token
Tokens(ps) ==
    IF ps = <<>> THEN <<>>
    ELSE IF ps[1].k = "s"
    THEN [i \in 1..Len(ps[1].v) |-> [k |-> "s", v |-> ps[1].v[i]]] \o Tokens(Tail(ps))
    ELSE <<[k |-> ps[1].k, v |-> ""]>> \o Tokens(Tail(ps))
Rank(tok) == IF tok.k = "s" THEN 1 ELSE IF tok.k = "p" THEN 2 ELSE 3
\* template t takes precedence over u: where they first differ, t has the
\* higher kind (static over parameter over wildcard)
Precedes(t, u) ==
    LET a == Tokens(Pieces(t))
        b == Tokens(Pieces(u))
        d == {i \in 1..Min(Len(a), Len(b)) : a[i] # b[i]}
    IN  d # {} /\ LET i == CHOOSE i \in d : \A j \in d : i <= j
                  IN  Rank(a[i]) < Rank(b[i])

\* the lookup gave the handler last registered for (m, t), the template and
\* the template's parameters with the values the path has for them, in order
LookupYields(c, m, t, path) ==
    /\ c.handler.h = Reg(m, t).h
    /\ c.path = t
    /\ c.pnames = TemplateNames(t)
    /\ ParamValues(c) = TemplateValues(t, path)
    /\ \A i \in 1..Len(TemplateNames(t)) :
          Param(c, TemplateNames(t)[i]) = TemplateValues(t, path)[i]

\* C1, as stated: for every registered (method, template) and every path that
\* matches the template, the lookup yields that template's handler, the
\* template and the parameter values in the order of its parameter names.
C1_AnyMatch ==
    \A p \in Procs : Served(p) =>
        \A t \in Registered(MethodOf(p)) :
            TemplateMatches(t, PathOf(p)) => LookupYields(Ctx(p), MethodOf(p), t, PathOf(p))

\* C1, amended: the same for every path that matches the template when the
\* template takes precedence over every other template of the method that
\* matches the path too.
C1_Lookup ==
    \A p \in Procs : Served(p) =>
        \A t \in Registered(MethodOf(p)) :
            /\ TemplateMatches(t, PathOf(p))
            /\ \A u \in Registered(MethodOf(p)) \ {t} :
                  TemplateMatches(u, PathOf(p)) => Precedes(t, u)
            => LookupYields(Ctx(p), MethodOf(p), t, PathOf(p))

\* a request served by the two-parameter route while the one-parameter route
\* is registered too
C1_Witness ==
    /\ Served(1)
    /\ Cardinality(Registered(GET)) >= 2
    /\ Ctx(1).path = <<"/", "u", "/", ":", "u", "/", "f", "/", ":", "f">>
    /\ TemplateMatches(Ctx(1).path, PathOf(1))
    /\ ParamValues(Ctx(1)) = << <<"1">>, <<"2">> >>

\* C2: when a static route and a parameterized route of the same method both
\* match a path, the static route's handler and template are matched.
C2_StaticFirst ==
    \A p \in Procs : Served(p) =>
        \A t \in Registered(MethodOf(p)) :
            /\ t = PathOf(p)
            /\ TemplateNames(t) = <<>>
            /\ \E u \in Registered(MethodOf(p)) :
                  TemplateNames(u) # <<>> /\ TemplateMatches(u, PathOf(p))
            => /\ Ctx(p).path = t
               /\ Ctx(p).handler.h = Reg(MethodOf(p), t).h
               /\ ParamValues(Ctx(p)) = <<>>

\* /u/s served while /u/:id and /u/s are both registered under GET
C2_Witness ==
    /\ Served(1)
    /\ MethodOf(1) = GET
    /\ PathOf(1) = <<"/", "u", "/", "s">>
    /\ {<<"/", "u", "/", "s">>, <<"/", "u", "/", ":", "i", "d">>} \subseteq Registered(GET)
    /\ Ctx(1).path = <<"/", "u", "/", "s">>

\* the entries of Routes() for one method and template
RoutesFor(m, t) == {k \in DOMAIN routes : routes[k].Method = m /\ routes[k].Path = t}

\* C9: registering the same (method, template) again leaves exactly one entry
\* for it in Routes(), and every later lookup of it runs the handler
\* registered last.
C9_LastWins ==
    /\ \A k \in DOMAIN calls.regs :
          /\ Cardinality(RoutesFor(k[1], k[2])) = 1
          /\ \A r \in RoutesFor(k[1], k[2]) : routes[r].Name = calls.regs[k].h
    /\ \A p \in Procs : Served(p) =>
          \A t \in Registered(MethodOf(p)) :
              Reg(MethodOf(p), t).n >= 2 /\ Ctx(p).path = t
              => /\ Ctx(p).handler.h = Reg(MethodOf(p), t).h
                 /\ "handler" \in DOMAIN Ctx(p).store
                 /\ Ctx(p).store["handler"] = Reg(MethodOf(p), t).h

\* a request served by a route that was registered twice
C9_Witness ==
    /\ Served(1)
    /\ \E t \in Registered(MethodOf(1)) :
          /\ Reg(MethodOf(1), t).n >= 2
          /\ Ctx(1).path = t
          /\ Ctx(1).handler.h = HandlerNames[2]

\* C10: a context acquired again for another request has no store key of the
\* earlier request, an empty matched template and no parameter names or
\* values to read; once served, a parameter name the matched route does not
\* define reads as empty.
C10_CleanReuse ==
    \A p \in Procs :
        /\ reqs[p].pc = "acquired" =>
              /\ DOMAIN Ctx(p).store = {}
              /\ Ctx(p).path = <<>>
              /\ Ctx(p).pnames = <<>>
              /\ ParamValues(Ctx(p)) = <<>>
              /\ \A t \in Templates : \A i \in 1..Len(TemplateNames(t)) :
                    Param(Ctx(p), TemplateNames(t)[i]) = <<>>
        /\ Served(p) =>
              /\ \A t \in Templates : \A i \in 1..Len(TemplateNames(t)) :
                    TemplateNames(t)[i] \notin Range(Ctx(p).pnames)
                    => Param(Ctx(p), TemplateNames(t)[i]) = <<>>

\* a context that carried two parameter values, acquired again
C10_Witness ==
    /\ reqs[1].pc = "acquired"
    /\ calls.reqs = 2
    /\ Len(ctxs) = 1
    /\ Len(Ctx(1).pvalues) = 2
    /\ Ctx(1).pvalues[2] # <<>>

\* ------------------------------------------- properties of the chains
\* the names of the log's events, and the part of the log after the lookup
Evs(log) == [i \in 1..Len(log) |-> log[i].ev]
Finds(log) == {i \in 1..Len(log) : log[i].ev = "find"}
AfterFind(log) ==
    IF Finds(log) = {} THEN <<>>
    ELSE SubSeq(log, (CHOOSE i \in Finds(log) : TRUE) + 1, Len(log))
\* a list of middleware up to and including the first that does not call next
AllNext(ms) == \A i \in 1..Len(ms) : MwKind(ms[i]) = "next"
Cut(ms) ==
    LET bad == {i \in 1..Len(ms) : MwKind(ms[i]) # "next"}
    IN  IF bad = {} THEN ms ELSE Take(ms, CHOOSE i \in bad : \A j \in bad : i <= j)
\* no template of the method matches the path
NoneMatch(m, path) == \A t \in Registered(m) : ~TemplateMatches(t, path)
RegMethods == {k[1] : k \in DOMAIN calls.regs}
NotRegistered(p) == \A m \in RegMethods : NoneMatch(m, PathOf(p))
OtherMethodOnly(p) ==
    /\ NoneMatch(MethodOf(p), PathOf(p))
    /\ \E m \in RegMethods : ~NoneMatch(m, PathOf(p))

\* C3, as stated: a path registered under no method yields status 404; a
\* path registered only under other methods yields status 405.
C3_Always ==
    \A p \in Procs : Served(p) =>
        /\ NotRegistered(p) => Code(reqs[p].rec) = StatusNotFound
        /\ OtherMethodOnly(p) => Code(reqs[p].rec) = StatusMethodNotAllowed

\* C3, amended: the same when every pre-middleware and every global
\* middleware of the mux calls next.
C3_Status ==
    \A p \in Procs : Served(p) /\ AllNext(calls.pre) /\ AllNext(calls.global) =>
        /\ NotRegistered(p) =>
              /\ Code(reqs[p].rec) = StatusNotFound
              /\ reqs[p].err = ErrNotFound
        /\ OtherMethodOnly(p) =>
              /\ Code(reqs[p].rec) = StatusMethodNotAllowed
              /\ reqs[p].err = ErrMethodNotAllowed

\* a POST answered 405 for a path registered under GET, behind a global
\* middleware that calls next
C3_Witness ==
    /\ Served(1)
    /\ calls.global # <<>> /\ AllNext(calls.global) /\ AllNext(calls.pre)
    /\ OtherMethodOnly(1)
    /\ Code(reqs[1].rec) = StatusMethodNotAllowed

\* C4: the global middleware runs in the order of registration, the first
\* outermost, each only when the one before it called next, and the matched
\* handler after the last of them.
C4_GlobalOrder ==
    \A p \in Procs : Served(p) /\ Finds(reqs[p].log) # {} =>
        LET G == calls.global
            A == Evs(AfterFind(reqs[p].log))
        IN  /\ Len(A) >= Len(Cut(G))
            /\ Take(A, Len(Cut(G))) = Cut(G)
            /\ ~AllNext(G) => A = Cut(G)
            /\ AllNext(G) /\ Ctx(p).path # <<>> =>
                  /\ Len(A) > Len(G)
                  /\ Range(Drop(A, Len(G))) \cap Range(G) = {}
                  /\ \A i \in 1..Len(G) : AfterFind(reqs[p].log)[i].path = Ctx(p).path

\* two global middleware and then the handler of the matched route
C4_Witness ==
    /\ Served(1)
    /\ Len(calls.global) >= 2 /\ AllNext(calls.global)
    /\ Ctx(1).path # <<>>
    /\ "handler" \in DOMAIN Ctx(1).store
    /\ Evs(reqs[1].log)[Len(reqs[1].log)] = Ctx(1).store["handler"]

\* C5: with pre-middleware registered, every pre-middleware runs before the
\* route lookup and sees an empty matched template; the lookup, the global
\* middleware and the handler run inside the pre chain.
C5_PreFirst ==
    \A p \in Procs : Served(p) /\ calls.pre # <<>> =>
        LET P == calls.pre
            L == reqs[p].log
        IN  /\ Len(L) >= Len(Cut(P))
            /\ Take(Evs(L), Len(Cut(P))) = Cut(P)
            /\ \A i \in 1..Len(Cut(P)) : L[i].path = <<>>
            /\ Finds(L) = IF AllNext(P) THEN {Len(P) + 1} ELSE {}
            /\ ~AllNext(P) => Len(L) = Len(Cut(P))

\* a pre-middleware, then the lookup of a registered route, a global
\* middleware and the handler
C5_Witness ==
    /\ Served(1)
    /\ calls.pre # <<>> /\ calls.global # <<>>
    /\ Ctx(1).path # <<>>
    /\ reqs[1].log[1].path = <<>>
    /\ "handler" \in DOMAIN Ctx(1).store

RECURSIVE OwnChain(_)
\* the middleware the group's ancestors and the group were created with,
\* the outermost group first
OwnChain(g) == IF g = 0 THEN <<>> ELSE OwnChain(calls.parent[g]) \o calls.own[g]
\* the route that served the request, as it was registered
Matched(p) == Reg(MethodOf(p), Ctx(p).path)
RoutedOk(p) ==
    /\ Served(p) /\ Ctx(p).path # <<>>
    /\ AllNext(calls.pre) /\ AllNext(calls.global)

\* C6: a route registered on a group nested in other groups runs the global
\* middleware, then the middleware of the groups from the outermost to the
\* innermost, then its handler; a route registered on the mux runs the global
\* middleware and then its handler.
C6_OutsideIn ==
    \A p \in Procs : RoutedOk(p) =>
        LET r == Matched(p)
            A == Evs(AfterFind(reqs[p].log))
        IN  /\ r.group = 0 /\ r.inline = <<>> => A = calls.global \o <<r.h>>
            /\ /\ r.group # 0 /\ r.inline = <<>>
               /\ calls.eff[r.group] = OwnChain(r.group)
               => A = calls.global \o OwnChain(r.group) \o <<r.h>>

\* global A, group B, nested group C and a handler on the nested group
C6_Witness ==
    /\ RoutedOk(1)
    /\ Len(calls.global) = 1
    /\ Matched(1).group # 0 /\ calls.parent[Matched(1).group] # 0
    /\ Len(OwnChain(Matched(1).group)) = 2
    /\ Len(reqs[1].log) = 5

\* all the middleware ever given to a group
GroupMws == UNION {Range(calls.eff[g]) : g \in 1..Len(calls.eff)}

\* C7: a group's list holds what its parent had when the group was created
\* and what was added to the group itself, whatever groups are created or
\* extended later; a route runs no middleware of a sibling group and none
\* added to the parent after its own group was created.
C7_GroupIsolation ==
    /\ Len(groups) = Len(calls.eff)
    /\ \A g \in 1..Len(groups) : Elems(heap, groups[g].middleware) = calls.eff[g]
    /\ \A p \in Procs : Served(p) /\ Ctx(p).path # <<>> =>
          Range(Evs(reqs[p].log)) \cap (GroupMws \ Range(Matched(p).chain)) = {}
    /\ \A p \in Procs : RoutedOk(p) =>
          Range(Matched(p).chain) \subseteq Range(Evs(reqs[p].log))

\* a route of a child group served after middleware was added to the parent
\* and while a sibling group exists or the parent has grown
C7_Witness ==
    /\ RoutedOk(1)
    /\ Matched(1).group # 0
    /\ calls.parent[Matched(1).group] # 0
    /\ GroupMws \ Range(Matched(1).chain) # {}
    /\ Range(calls.eff[calls.parent[Matched(1).group]]) \ Range(Matched(1).chain) # {}

\* C8: routes registered on the same group with different inline middleware
\* each run the group's middleware, then their own inline middleware, then
\* their handler, and nothing of the other route.
C8_OwnChain ==
    \A p \in Procs : RoutedOk(p) =>
        LET r == Matched(p)
            A == Evs(AfterFind(reqs[p].log))
            own == r.chain \o r.inline
        IN  A = calls.global \o Cut(own) \o (IF AllNext(own) THEN <<r.h>> ELSE <<>>)

\* two routes of one group with different inline middleware, the one
\* registered first served
C8_Witness ==
    /\ RoutedOk(1)
    /\ Matched(1).group # 0 /\ Matched(1).inline # <<>>
    /\ \E k \in DOMAIN calls.regs :
          /\ calls.regs[k].group = Matched(1).group
          /\ calls.regs[k].inline # <<>>
          /\ calls.regs[k].inline # Matched(1).inline
          /\ calls.regs[k].h = HandlerNames[2]
    /\ Matched(1).h = HandlerNames[1]

\* ------------------------------------------- properties of the pool
InFlight(p) == reqs[p].pc # "idle"
Held == {reqs[p].c : p \in {q \in Procs : InFlight(q)}}

\* C11: in every interleaving of concurrent requests no two requests that are
\* between acquire and release hold the same context, and a context is in the
\* pool only while no in-flight request holds it.
C11_OneHolder ==
    /\ \A p \in Procs : \A q \in Procs :
          p # q /\ InFlight(p) /\ InFlight(q) => reqs[p].c # reqs[q].c
    /\ pool \cap Held = {}
\* two requests in flight at once, each on a context of its own, one served
\* and about to release while the other is still to run its chain
C11_Witness ==
    /\ reqs[1].pc = "served" /\ reqs[2].pc = "acquired"
    /\ {reqs[1].c, reqs[2].c} = {1, 2}
    /\ pool = {}

\* C12: every dispatch that acquired a context releases it to the pool, once:
\* the request that holds a context reaches the Put, after a chain that
\* succeeded and after a chain that failed and had its failure handled; every
\* Put returns the context of a served request, which was not in the pool; and
\* at every moment the Puts made plus the requests in flight are the contexts
\* acquired.
C12_ReleasedOnce ==
    /\ \A p \in Procs : InFlight(p) ~> (~InFlight(p))
    /\ [](calls.puts + Cardinality({p \in Procs : InFlight(p)}) = calls.reqs)
    /\ [][\A p \in Procs :
            InFlight(p) /\ ~InFlight(p)' =>
                /\ reqs[p].pc = "served"
                /\ reqs[p].c \notin pool
                /\ pool' = pool \cup {reqs[p].c}
                /\ calls'.puts = calls.puts + 1]_vars
\* a failed dispatch about to release, after a successful one released
C12_Witness ==
    /\ calls.puts >= 1
    /\ \E p \in Procs :
          /\ reqs[p].pc = "served" /\ reqs[p].err # NoError
          /\ reqs[p].rec.committed
          /\ reqs[p].c \in 1..Len(ctxs) /\ reqs[p].c \notin pool

\* ------------------------------------------- properties of the responses
\* the status and the message defaultHTTPErrorHandler derives from an error
ErrCode(err) == IF err.kind = "http" THEN err.code ELSE StatusInternalServerError
ErrHasStringMessage(err) == err.kind = "http" => err.msg = "string"
Failed(p) == reqs[p].err # NoError

\* C13 as stated: when a dispatch returns, exactly one response has been
\* produced, the handler's or a middleware's if one was written, otherwise a
\* default 404, 405 or 500 response; never zero and never two.
C13_ExactlyOne ==
    \A p \in Procs : Served(p) =>
        /\ reqs[p].rec.committed
        /\ Len(reqs[p].rec.body) <= 1
        /\ reqs[p].out.committed => reqs[p].rec = reqs[p].out
        /\ ~reqs[p].out.committed =>
               reqs[p].rec.status \in {StatusNotFound, StatusMethodNotAllowed,
                                       StatusInternalServerError}
\* C13: when a dispatch returns, at most one response has been written and
\* exactly one answers the request: the handler's or a middleware's response
\* if one was written; otherwise, when the chain returned a failure, the error
\* handler's response with the status of the failure (404, 405, the status of
\* the handler's HTTP error, or 500); otherwise, when the chain returned
\* success, nothing is written and the server's implicit empty 200 answers.
C13_OneResponse ==
    \A p \in Procs : Served(p) =>
        /\ Len(reqs[p].rec.body) <= 1
        /\ reqs[p].out.committed => reqs[p].rec = reqs[p].out
        /\ ~reqs[p].out.committed /\ Failed(p) =>
               /\ reqs[p].rec.committed
               /\ reqs[p].rec.status = ErrCode(reqs[p].err)
        /\ ~reqs[p].out.committed /\ ~Failed(p) =>
               /\ reqs[p].rec = NewResponse
               /\ Code(reqs[p].rec) = StatusOK
\* a matched handler that returned nil without a response: nothing written
C13_Witness ==
    /\ Served(1) /\ ~Failed(1)
    /\ \E i \in DOMAIN reqs[1].log : HandlerKind(reqs[1].log[i].ev) = "silent"
    /\ reqs[1].rec = NewResponse

C16_HeadNoBody ==
    \A p \in Procs : Served(p) /\ Failed(p) /\ MethodOf(p) = HEAD =>
        /\ reqs[p].rec.body = reqs[p].out.body
        /\ ~reqs[p].out.committed =>
               /\ reqs[p].rec.committed
               /\ reqs[p].rec.status = ErrCode(reqs[p].err)
               /\ reqs[p].rec.body = <<>>
\* a HEAD route whose handler returns NewHTTPError(400, map): 400, no body
C16_Witness ==
    /\ Served(1) /\ MethodOf(1) = HEAD
    /\ reqs[1].err = NewHTTPErrorMessage(StatusBadRequest, "map")
    /\ reqs[1].rec = [status |-> StatusBadRequest, committed |-> TRUE, body |-> <<>>]

\* C14: a middleware that returns a failure without calling next is the last
\* function of the chain that runs: no later middleware and no handler runs,
\* the failure reaches the error handler and, being no HTTP error, is
\* answered with 500.
C14_FailStops ==
    \A p \in Procs : Served(p) =>
        \A i \in DOMAIN reqs[p].log :
            MwKind(reqs[p].log[i].ev) = "fail" =>
                /\ i = Len(reqs[p].log)
                /\ reqs[p].err = PlainError
                /\ Code(reqs[p].rec) = StatusInternalServerError
                /\ reqs[p].rec.body = <<"json:message">>
\* three global middleware, the second one failing: the first two ran
C14_Witness ==
    /\ Served(1)
    /\ Len(calls.global) = 3
    /\ MwKind(calls.global[1]) = "next" /\ MwKind(calls.global[2]) = "fail"
    /\ MwKind(calls.global[3]) = "next"
    /\ Evs(reqs[1].log) = <<"find", calls.global[1], calls.global[2]>>
    /\ Code(reqs[1].rec) = StatusInternalServerError

\* ------------------------------------------- properties of encoded paths
RawPathOf(p) == Ctx(p).request.URL.RawPath
\* a template that is static text followed by the wildcard
EndsInWildcard(t) == TemplateNames(t) = << <<"*">> >>

\* C17: a wildcard captures the entire rest of the path, "/" included, and the
\* match ends at the wildcard: a path that only the template prefix/* matches
\* is served by that route, the parameter "*" is all that follows the prefix
\* in the path the lookup ran on, and unescaping it gives what follows the
\* prefix in the decoded path (/i/a/b%2Fc gives a/b%2Fc, decoded a/b/c).
C17_WildcardRest ==
    \A p \in Procs : Served(p) =>
        \A t \in Registered(MethodOf(p)) :
            /\ EndsInWildcard(t)
            /\ TemplateMatches(t, PathOf(p))
            /\ \A u \in Registered(MethodOf(p)) \ {t} : ~TemplateMatches(u, PathOf(p))
            => /\ Ctx(p).path = t
               /\ Ctx(p).handler.h = Reg(MethodOf(p), t).h
               /\ Param(Ctx(p), <<"*">>) = Drop(PathOf(p), Len(t) - 1)
               /\ PathUnescape(Param(Ctx(p), <<"*">>)) =
                      Drop(Ctx(p).request.URL.Path, Len(t) - 1)
\* /i/a/b%2Fc served by /i/*: the value a/b%2Fc decodes to a/b/c
C17_Witness ==
    /\ Served(1)
    /\ RawPathOf(1) = <<"/", "i", "/", "a", "/", "b", "%", "2", "F", "c">>
    /\ Ctx(1).path = <<"/", "i", "/", "*">>
    /\ Param(Ctx(1), <<"*">>) = <<"a", "/", "b", "%", "2", "F", "c">>
    /\ PathUnescape(Param(Ctx(1), <<"*">>)) = <<"a", "/", "b", "/", "c">>

\* C18: the lookup runs on the raw path whenever the request has one, so an
\* escaped "/" separates nothing: a request with a raw path is served by a
\* template that matches the raw path, with the values the raw path has for
\* its parameters and status 200, and fails with 404 or 405 only when no
\* template of the method matches the raw path.
C18_RawPathMatched ==
    \A p \in Procs : Served(p) /\ RawPathOf(p) # <<>> =>
        IF \E t \in Registered(MethodOf(p)) : TemplateMatches(t, RawPathOf(p))
        THEN /\ Ctx(p).path \in Registered(MethodOf(p))
             /\ TemplateMatches(Ctx(p).path, RawPathOf(p))
             /\ ParamValues(Ctx(p)) = TemplateValues(Ctx(p).path, RawPathOf(p))
             /\ ~Failed(p) /\ Code(reqs[p].rec) = StatusOK
        ELSE /\ Failed(p)
             /\ Code(reqs[p].rec) \in {StatusNotFound, StatusMethodNotAllowed}
\* /u/a%2Fb served by /u/:id with the one value a%2Fb, although no registered
\* template matches the decoded path /u/a/b
C18_Witness ==
    /\ Served(1)
    /\ RawPathOf(1) = <<"/", "u", "/", "a", "%", "2", "F", "b">>
    /\ Ctx(1).path = <<"/", "u", "/", ":", "i", "d">>
    /\ ParamValues(Ctx(1)) = << <<"a", "%", "2", "F", "b">> >>
    /\ Code(reqs[1].rec) = StatusOK
    /\ \A t \in Registered(GET) : ~TemplateMatches(t, Ctx(1).request.URL.Path)

\* ------------------------------------------- properties of registration
\* Where the parameters of a template start, their names, and the template
\* up to a position with the names left out (the position in the tree), read
\* off the template's characters.
ParamStarts(t) == {i \in 1..Len(t) : t[i] = ":"}
NameEnd(t, i) ==
    LET E == {k \in (i + 1)..Len(t) : t[k] = "/"}
    IN  IF E = {} THEN Len(t) ELSE (CHOOSE k \in E : \A x \in E : k <= x) - 1
NameAt(t, i) == SubSeq(t, i + 1, NameEnd(t, i))
InName(t, k) == \E i \in ParamStarts(t) : i < k /\ k <= NameEnd(t, i)
Nth(K, j) == CHOOSE k \in K : Cardinality({x \in K : x <= k}) = j
Shape(t, n) ==
    LET K == {k \in 1..n : ~InName(t, k)}
    IN  [j \in 1..Cardinality(K) |-> t[Nth(K, j)]]
\* t and u have a parameter at the same position of the tree (the same text
\* and kinds before it) under different names
Conflict(t, u) ==
    \E i \in ParamStarts(t) : \E j \in ParamStarts(u) :
        Shape(t, i) = Shape(u, j) /\ NameAt(t, i) # NameAt(u, j)
HasWildcard(t) == t # <<>> /\ t[Len(t)] = "*"
\* the parameter names of a template in order, "*" for the wildcard
OwnNames(t) ==
    LET K == {i \in 1..Len(t) : t[i] = ":" \/ t[i] = "*"}
    IN  [j \in 1..Cardinality(K) |->
            IF t[Nth(K, j)] = "*" THEN <<"*">> ELSE NameAt(t, Nth(K, j))]
\* the relations above over the templates of the routing runs, computed once
RoutingTemplates == Templates \cup PostTemplates
ConflictPairs ==
    UNION {{<<t, u>> : u \in {x \in RoutingTemplates : Conflict(t, x)}} :
               t \in RoutingTemplates}
WildcardTemplates == {t \in RoutingTemplates : HasWildcard(t)}
NamesOf == [t \in RoutingTemplates |-> OwnNames(t)]
\* the route of (m, t) is in the registry and in the tree of m, with the
\* handler registered last, the template and the template's parameter names
Kept(m, t) ==
    /\ \E k \in RoutesFor(m, t) : routes[k].Name = Reg(m, t).h
    /\ \E i \in 1..Len(nodes) :
          /\ nodes[i].ppath = t
          /\ nodes[i].handler # NoHandler
          /\ nodes[i].handler.h = Reg(m, t).h
          /\ nodes[i].pnames = NamesOf[t]

C20_BothResolve ==
    \A p \in Procs : Served(p) =>
        \A t \in {tu[1] : tu \in {x \in ConflictPairs :
                          /\ <<MethodOf(p), x[1]>> \in DOMAIN calls.regs
                          /\ <<MethodOf(p), x[2]>> \in DOMAIN calls.regs}} :
            /\ TemplateMatches(t, PathOf(p))
            /\ \A w \in Registered(MethodOf(p)) \ {t} :
                  TemplateMatches(w, PathOf(p)) => Precedes(t, w)
            => /\ RoutesFor(MethodOf(p), t) # {}
               /\ Ctx(p).path = t
               /\ Ctx(p).pnames = NamesOf[t]
               /\ ~Failed(p)
               /\ \A i \in 1..Len(NamesOf[t]) :
                     Param(Ctx(p), NamesOf[t][i]) = TemplateValues(t, PathOf(p))[i]
\* /u/1/f/2 served as /u/:u/f/:f, registered after /u/:id
C20_Witness ==
    /\ Served(1)
    /\ PathOf(1) = <<"/", "u", "/", "1", "/", "f", "/", "2">>
    /\ <<GET, <<"/", "u", "/", ":", "i", "d">> >> \in DOMAIN calls.regs
    /\ Reg(GET, <<"/", "u", "/", ":", "i", "d">>).h = HandlerNames[1]
    /\ Ctx(1).handler.h = HandlerNames[2]
    /\ Ctx(1).path = <<"/", "u", "/", ":", "u", "/", "f", "/", ":", "f">>
    /\ Ctx(1).pnames = << <<"u">>, <<"f">> >>
    /\ Param(Ctx(1), <<"f">>) = <<"2">>


\* ------------------------------------------- properties of the enumeration
RECURSIVE Instance(_)
\* a path the template matches: every parameter and the wildcard filled in
\* with a text that is no static text of the templates
Instance(ps) ==
    IF ps = <<>> THEN <<>>
    ELSE IF ps[1].k = "s" THEN ps[1].v \o Instance(Tail(ps))
    ELSE <<"1">> \o Instance(Tail(ps))
InstanceOf == [t \in RoutingTemplates |-> Instance(Pieces(t))]
\* the paths looked up: the requests' and one per template
SamplePaths ==
    {getPath(r) : r \in Requests} \cup {InstanceOf[t] : t \in RoutingTemplates}
\* what router.find reaches for a path in the tree of a method
Lookup(m, path) == Search(nodes, Root(m), path, Blank(Len(path) + 1), 0)

Matching(p) == {t \in Registered(MethodOf(p)) : TemplateMatches(t, PathOf(p))}
\* a registered template that does not match the path although the path
\* starts with its static text up to its first parameter or wildcard, or with
\* all of it: the lookup walks into its branch and finds no handler there
DeadEnds(p) ==
    {u \in Registered(MethodOf(p)) \ Matching(p) :
        IsPrefix(Take(u, StaticLen(u)), PathOf(p))}

\* C22: a branch that leads to a dead end hides nothing: whenever a template
\* of the method matches the path, the lookup succeeds with a template that
\* matches it, the one that takes precedence over all others that match
\* (static over param over wildcard at the first point of choice), and with
\* the values the path has for that template's parameters.
C22_Backtracks ==
    \A p \in Procs : Served(p) /\ Matching(p) # {} =>
        /\ ~Failed(p)
        /\ Ctx(p).path \in Matching(p)
        /\ \A u \in Matching(p) \ {Ctx(p).path} : Precedes(Ctx(p).path, u)
        /\ Ctx(p).handler.h = Reg(MethodOf(p), Ctx(p).path).h
        /\ ParamValues(Ctx(p)) = TemplateValues(Ctx(p).path, PathOf(p))
\* /a/b/c with /a/b and /a/:x/c registered: the static branch b has nothing
\* for /c, the param branch serves the path with x = b
C22_Witness ==
    /\ Served(1)
    /\ PathOf(1) = <<"/", "a", "/", "b", "/", "c">>
    /\ <<"/", "a", "/", "b">> \in DeadEnds(1)
    /\ Ctx(1).path = <<"/", "a", "/", ":", "x", "/", "c">>
    /\ Param(Ctx(1), <<"x">>) = <<"b">>
    /\ Code(reqs[1].rec) = StatusOK

\* what the lookup of a path in the tree ns reports when its search gave r:
\* the handler, the template and the values of the template's parameters
Resolved(ns, r) ==
    IF r.found
    THEN [found |-> TRUE, h |-> ns[r.node].handler.h, path |-> ns[r.node].ppath,
          vals |-> Take(r.pv, Len(ns[r.node].pnames))]
    ELSE [found |-> FALSE, h |-> "nil", path |-> <<>>, vals |-> <<>>]
LookupIn(ns, m, path) ==
    Resolved(ns, Search(ns, Root(m), path, Blank(Len(path) + 1), 0))
\* the (method, template) pairs a step registers
Added == {k \in DOMAIN calls'.regs :
             k \notin DOMAIN calls.regs \/ calls'.regs[k].n # calls.regs[k].n}

WildcardsOf(m) == {w \in Registered(m) : HasWildcard(w)}
ParamAt(t, w) == \E i \in ParamStarts(t) : Shape(t, i - 1) = Shape(w, Len(w) - 1)

\* C24: where a param child and a wildcard child stand below one node, the
\* param branch is tried first: a path that the param route matches is not
\* served by the wildcard route, and is served by the param route with the
\* segment as its value when no static route matches the path; the wildcard
\* route serves a path only when no other template of the method matches it.
C24_ParamBeforeWildcard ==
    \A p \in Procs : Served(p) =>
        \A w \in WildcardsOf(MethodOf(p)) :
            /\ Ctx(p).path = w => Matching(p) = {w}
            /\ \A t \in Matching(p) :
                  ParamAt(t, w) =>
                      /\ Ctx(p).path # w
                      /\ Matching(p) \subseteq {t, w} =>
                            /\ Ctx(p).path = t
                            /\ Ctx(p).handler.h = Reg(MethodOf(p), t).h
                            /\ ParamValues(Ctx(p)) = TemplateValues(t, PathOf(p))
\* /a/q/c with /a/:x/c and /a/* registered: served by /a/:x/c with x = q
C24_Witness ==
    /\ Served(1)
    /\ PathOf(1) = <<"/", "a", "/", "q", "/", "c">>
    /\ Matching(1) = {<<"/", "a", "/", ":", "x", "/", "c">>, <<"/", "a", "/", "*">>}
    /\ ParamAt(<<"/", "a", "/", ":", "x", "/", "c">>, <<"/", "a", "/", "*">>)
    /\ Ctx(1).path = <<"/", "a", "/", ":", "x", "/", "c">>
    /\ Param(Ctx(1), <<"x">>) = <<"q">>


\* ------------------------------------------- properties of the context's reset
\* a context as reset leaves it, but for the request and the parameter values
Clean(c) ==
    /\ c.store = EmptyStore
    /\ c.handler = NotFoundHandler
    /\ c.path = <<>> /\ c.pnames = <<>>
    /\ c.response = NewResponse

MaxParamCount ==
    LET N == {Len(NamesOf[k[2]]) : k \in DOMAIN calls.regs}
    IN  IF N = {} THEN 0 ELSE CHOOSE n \in N : \A x \in N : x <= n

\* C26: with every registration made before the first request, every context
\* of the pool, new or reused, has room for as many parameter values as the
\* largest number of parameters of a registered route, which is the mux's
\* maxParam; no lookup writes a value past that room, and the matched route's
\* names never outnumber the values.
C26_CapacityFits ==
    /\ maxParam = MaxParamCount
    /\ \A i \in 1..Len(ctxs) :
          /\ Len(ctxs[i].pvalues) = maxParam
          /\ ~ctxs[i].panic
          /\ Len(ctxs[i].pnames) <= Len(ctxs[i].pvalues)
    /\ \A p \in Procs : reqs[p].pc # "panic"
\* the second request of a run, served on the reused context by the route
\* with two parameters: both values recorded in a room of two
C26_Witness ==
    /\ Served(1) /\ calls.reqs = 2 /\ Len(ctxs) = 1
    /\ maxParam = 2 /\ Len(Ctx(1).pvalues) = 2
    /\ Ctx(1).pnames = << <<"u">>, <<"f">> >>
    /\ ParamValues(Ctx(1)) = << <<"1">>, <<"2">> >>

\* ------------------------------------------- properties of the error path
\* C27: the error handler is called once, with the error the chain returned,
\* in every dispatch whose chain returned an error, and not at all in a
\* dispatch whose chain returned nil; a path that is not registered, or is
\* registered under another method only, ends in the not-found or the
\* method-not-allowed handler as the last function of the chain, whose
\* returned error comes back through the middleware and reaches the error
\* handler like a handler's error.
C27_OneErrorPath ==
    \A p \in Procs : Served(p) =>
        /\ Failed(p) => reqs[p].eh = <<reqs[p].err>>
        /\ ~Failed(p) => reqs[p].eh = <<>>
        /\ AllNext(calls.global) /\ (NotRegistered(p) \/ OtherMethodOnly(p)) =>
              /\ Ctx(p).handler \in {NotFoundHandler, MethodNotAllowedHandler}
              /\ Evs(AfterFind(reqs[p].log)) = calls.global
              /\ reqs[p].err = IF NotRegistered(p) THEN ErrNotFound
                               ELSE ErrMethodNotAllowed
              /\ reqs[p].eh = <<reqs[p].err>>
              /\ reqs[p].rec.status = reqs[p].err.code
\* a GET for a path registered under HEAD, behind a global middleware that
\* calls next: 405 returned through the middleware to the error handler
C27_Witness ==
    /\ Served(1)
    /\ Len(calls.global) = 1 /\ AllNext(calls.global)
    /\ OtherMethodOnly(1)
    /\ Evs(reqs[1].log) = <<"find", calls.global[1]>>
    /\ reqs[1].eh = <<ErrMethodNotAllowed>>
    /\ reqs[1].rec.status = StatusMethodNotAllowed

\* C28: when the chain returns a failure after a response was committed, the
\* default error handler is called and writes nothing: the status and the
\* body of the dispatch are those the handler wrote.
C28_CommittedKept ==
    \A p \in Procs : Served(p) /\ Failed(p) /\ reqs[p].out.committed =>
        /\ reqs[p].eh = <<reqs[p].err>>
        /\ reqs[p].rec = reqs[p].out
        /\ Code(reqs[p].rec) = reqs[p].out.status
        /\ HandlerKind(Ctx(p).handler.h) = "late" =>
               reqs[p].rec = [status |-> StatusOK, committed |-> TRUE,
                              body |-> <<"text">>]
\* a GET handler that responds 200 with a text and then returns errors.New:
\* the client gets the 200 and the text, nothing of the 500
C28_Witness ==
    /\ Served(1) /\ MethodOf(1) = GET
    /\ HandlerKind(Ctx(1).handler.h) = "late"
    /\ reqs[1].err = PlainError /\ reqs[1].eh = <<PlainError>>
    /\ reqs[1].out = [status |-> StatusOK, committed |-> TRUE, body |-> <<"text">>]
    /\ reqs[1].rec = reqs[1].out

\* ------------------------------------------- properties of inline middleware
\* all the middleware ever passed inline to a registration
InlineMws == UNION {Range(calls.regs[k].inline) : k \in DOMAIN calls.regs}

\* C29: the middleware passed inline at a route's registration runs after all
\* global middleware and all middleware of the route's group, in the order of
\* the call and before the handler, each only when the one before it called
\* next; the route runs the list of its own registration and no middleware
\* passed inline to another registration.
C29_InlineInnermost ==
    \A p \in Procs : RoutedOk(p) /\ Matched(p).inline # <<>> =>
        \E r \in {Matched(p)} : \E A \in {Evs(AfterFind(reqs[p].log))} :
        \E n \in {Len(calls.global) + Len(r.chain)} :
            /\ AllNext(r.chain) => Take(A, n) = calls.global \o r.chain
            /\ AllNext(r.chain) =>
                  Drop(A, n) = Cut(r.inline)
                               \o (IF AllNext(r.inline) THEN <<r.h>> ELSE <<>>)
            /\ Range(A) \cap (InlineMws \ Range(r.inline)) = {}
            /\ \A i \in 1..Len(A) : \A j \in 1..Len(A) :
                  /\ A[i] \in Range(r.inline)
                  /\ A[j] \in Range(calls.global) \cup Range(r.chain) \cup {r.h}
                  => (A[j] = r.h) = (i < j)
\* a route on a group registered with [r1, r2], behind a global middleware:
\* global, group, r1, r2, handler
C29_Witness ==
    /\ RoutedOk(1)
    /\ Len(calls.global) = 1 /\ Matched(1).group # 0
    /\ Len(Matched(1).inline) = 2 /\ AllNext(Matched(1).inline)
    /\ Evs(reqs[1].log) =
          <<"find", calls.global[1], Matched(1).chain[1], Matched(1).inline[1],
            Matched(1).inline[2], Matched(1).h>>

\* ------------------------------------------- properties of steady state
\* the steps of ServeHTTP: some process moves on
Serving == \E p \in Procs : reqs'[p] # reqs[p]
\* what a lookup alone, run on the tree, reports for the request of context c
Sequential(c) == LookupIn(nodes, c.request.Method, getPath(c.request))

\* C30: a step of ServeHTTP (acquire, the dispatch, release) leaves the tree,
\* the registry, maxParam and the middleware lists of the mux and of the
\* groups with their arrays as they were; it changes the pool and the context
\* of the request that takes the step and no other context; and every
\* dispatch, whatever other requests are in flight beside it, reports the
\* handler, template and parameter values that a lookup of its request on the
\* tree reports.
C30_ServingReadsOnly ==
    [][Serving =>
          /\ UNCHANGED <<nodes, routes, maxParam, premiddleware, middleware,
                         groups, heap>>
          /\ \A i \in 1..Len(ctxs) :
                ctxs'[i] # ctxs[i] =>
                    \E p \in Procs : reqs'[p] # reqs[p] /\ reqs'[p].c = i
          /\ \A p \in Procs :
                reqs[p].pc = "acquired" /\ reqs'[p].pc = "served" =>
                    \E c \in {ctxs'[reqs'[p].c]} : \E r \in {Sequential(c)} :
                        IF r.found
                        THEN /\ c.handler.h = r.h
                             /\ c.path = r.path
                             /\ ParamValues(c) = r.vals
                        ELSE /\ c.path = <<>>
                             /\ c.handler \in {NotFoundHandler, MethodNotAllowedHandler}]_vars
\* two requests served side by side on contexts of their own behind the same
\* global middleware, one by the registered route and one answered 405, the
\* registry and the middleware list as registration left them
C30_Witness ==
    /\ Served(1) /\ Served(2)
    /\ reqs[1].c # reqs[2].c
    /\ Ctx(1).path = <<"/", "u", "/", "s">> /\ ~Failed(1)
    /\ reqs[2].err = ErrMethodNotAllowed
    /\ Cardinality(DOMAIN routes) = 1
    /\ DOMAIN calls.regs = {<<GET, <<"/", "u", "/", "s">> >>}
    /\ Len(calls.global) = 1
    /\ Elems(heap, middleware) = calls.global
    /\ Evs(reqs[1].log) = <<"find", calls.global[1], HandlerNames[1]>>
    /\ Evs(reqs[2].log) = <<"find", calls.global[1]>>

\* ------------------------------------------- properties of the tree's shape
\* the places among the children of node n that hold a child of kind k
KindChildren(n, k) ==
    {i \in 1..Len(nodes[n].children) : nodes[nodes[n].children[i]].kind = k}
\* the nodes that list n among their children
Parents(n) == {m \in 1..Len(nodes) : n \in Range(nodes[m].children)}
ChildrenOf(S) == UNION {Range(nodes[n].children) : n \in S}
RECURSIVE Below(_, _)
\* the nodes reached from the nodes of S in one to k steps down
Below(S, k) ==
    IF k = 0 \/ S = {} THEN {}
    ELSE ChildrenOf(S) \cup Below(ChildrenOf(S), k - 1)

\* C31: in every tree the registrations build (the tree of every state in
\* which the mux has not begun to serve; serving leaves the tree as it is), a
\* node has at most one param child and at most one wildcard child, a
\* wildcard node has no children, and the structure is acyclic: no node is
\* reached from itself, every node but the roots has one parent and lists no
\* child twice, and the roots have none.
C31_TreeShape ==
    Registering =>
    \A n \in 1..Len(nodes) :
        /\ Cardinality(KindChildren(n, "p")) <= 1
        /\ Cardinality(KindChildren(n, "a")) <= 1
        /\ nodes[n].kind = "a" => nodes[n].children = <<>>
        /\ n \notin Below({n}, Len(nodes))
        /\ Cardinality(Parents(n)) = IF n <= Len(Methods) THEN 0 ELSE 1
        /\ Cardinality(Range(nodes[n].children)) = Len(nodes[n].children)
        /\ \A i \in 1..Len(nodes[n].children) : nodes[n].children[i] \in 1..Len(nodes)
\* /u/:id, /u/:u/f/:f and /i/* registered under GET: the two parameters share
\* the one param child of /u/, which has the static /f/ below it, and the
\* wildcard node below /i/ is a leaf
C31_Witness ==
    /\ Registering
    /\ Registered(GET) = {<<"/", "u", "/", ":", "i", "d">>,
                          <<"/", "u", "/", ":", "u", "/", "f", "/", ":", "f">>,
                          <<"/", "i", "/", "*">>}
    /\ \E n \in 1..Len(nodes) :
          /\ Cardinality(KindChildren(n, "p")) = 1
          /\ \E i \in KindChildren(n, "p") :
                /\ nodes[nodes[n].children[i]].handler # NoHandler
                /\ nodes[nodes[n].children[i]].children # <<>>
    /\ \E n \in 1..Len(nodes) :
          /\ nodes[n].kind = "a" /\ nodes[n].handler # NoHandler
          /\ nodes[n].children = <<>>
          /\ Cardinality(Parents(n)) = 1

\* ------------------------------------------- properties across methods
\* what router.find leaves in a context for (m, path) on the tree ns: the
\* handler (of a route, or the not-found or method-not-allowed handler), the
\* template and the parameters with their values
Answer(ns, m, path) ==
    LET c == Find(ns, m, path,
                  [NewContext(NoRequest) EXCEPT
                     !.pvalues = [i \in 1..Len(path) + 1 |-> <<>>]])
    IN  [handler |-> c.handler.h, path |-> c.path, names |-> c.pnames,
         vals |-> ParamValues(c)]
\* the path resolves under no method
UnknownIn(ns, path) == \A j \in 1..Len(Methods) : ~Matchable(ns, Methods[j], path)

\* C32: a registration under method M leaves the lookup of every path under
\* every other method as it was (handler, template, parameter names and
\* values) when the path matched there; the one change under another method
\* is that a path which resolved under no method and which the new template
\* matches is answered by the method-not-allowed handler where it was
\* answered by the not-found handler, and every such path changes so.
C32_OtherMethodsKept ==
    [][\A k \in Added : \A i \in 1..Len(Methods) : \A path \in SamplePaths :
          Methods[i] # k[1] =>
              \E old \in {Answer(nodes, Methods[i], path)} :
              \E new \in {Answer(nodes', Methods[i], path)} :
                  /\ old.handler \notin {NotFoundHandler.h, MethodNotAllowedHandler.h}
                     => new = old
                  /\ new # old =>
                        /\ old.handler = NotFoundHandler.h
                        /\ new = [old EXCEPT !.handler = MethodNotAllowedHandler.h]
                        /\ TemplateMatches(k[2], path)
                        /\ UnknownIn(nodes, path)
                  /\ TemplateMatches(k[2], path) /\ UnknownIn(nodes, path)
                     => new.handler = MethodNotAllowedHandler.h]_vars
\* /u/:id and /i/* registered under GET, then /u/s under POST: GET still
\* serves /u/s by /u/:id with id = s, HEAD answers /u/s with method not
\* allowed, and POST answers the path of /i/* with method not allowed
C32_Witness ==
    /\ DOMAIN calls.regs = {<<GET, <<"/", "u", "/", ":", "i", "d">> >>,
                            <<GET, <<"/", "i", "/", "*">> >>,
                            <<POST, <<"/", "u", "/", "s">> >>}
    /\ Reg(POST, <<"/", "u", "/", "s">>).h = HandlerNames[3]
    /\ Answer(nodes, GET, <<"/", "u", "/", "s">>) =
          [handler |-> Reg(GET, <<"/", "u", "/", ":", "i", "d">>).h,
           path |-> <<"/", "u", "/", ":", "i", "d">>,
           names |-> << <<"i", "d">> >>, vals |-> << <<"s">> >>]
    /\ Answer(nodes, POST, <<"/", "u", "/", "s">>).handler = HandlerNames[3]
    /\ Answer(nodes, HEAD, <<"/", "u", "/", "s">>).handler = MethodNotAllowedHandler.h
    /\ Answer(nodes, POST, <<"/", "i", "/", "1">>).handler = MethodNotAllowedHandler.h
    /\ Answer(nodes, POST, <<"/", "u", "/", "1", "/", "f", "/", "2">>).handler =
          NotFoundHandler.h

\* ------------------------------------------- properties of the insertion order
\* the trees of a router without routes
NoRoutes == [i \in 1..Len(Methods) |-> NewNode("s", <<>>)]
\* the orders in which the (method, template) pairs of S can be inserted
Orders(S) == {f \in [1..Cardinality(S) -> S] : Range(f) = S}
RECURSIVE Built(_, _)
\* the tree after the pairs of ks were inserted into ns one after the other,
\* each with the handler registered for it
Built(ns, ks) ==
    IF ks = <<>> THEN ns
    ELSE Built(Insert(ns, Root(ks[1][1]), ks[1][2],
                      [h |-> calls.regs[ks[1]].h, mw |-> NilSlice]),
               Tail(ks))
OrderPaths == TreePaths \cup SamplePaths

Leftovers(c) ==
    {[i \in 1..Len(c.pvalues) |-> v] : v \in {<<>>, <<"1">>, <<"z", "/", "z">>}}
\* the lookup of c's request again, on c reset with the values pv left in it
Again(c, pv) ==
    Find(nodes, c.request.Method, getPath(c.request),
         [Reset(c, c.request) EXCEPT !.pvalues = pv])
\* contexts c and d report the same match: handler, template, parameter
\* names, and the same value for every parameter name of the matched route
SameMatch(c, d) ==
    /\ c.handler = d.handler
    /\ c.path = d.path
    /\ c.pnames = d.pnames
    /\ ParamValues(c) = ParamValues(d)
    /\ \A i \in 1..Len(c.pnames) : Param(c, c.pnames[i]) = Param(d, c.pnames[i])

\* C34: what a dispatch reports does not depend on the parameter values the
\* context held when it was acquired: the context of every served request,
\* new or reused, reports the handler, template, parameter names and values
\* that the lookup reports on a context without values, and the lookup of the
\* same request on the same context with any other leftover values reports
\* the same again.
C34_LeftoverFree ==
    \A p \in Procs : Served(p) =>
        \E c \in {Ctx(p)} : \E a \in {Answer(nodes, MethodOf(p), PathOf(p))} :
            /\ c.handler.h = a.handler
            /\ c.path = a.path
            /\ c.pnames = a.names
            /\ ParamValues(c) = a.vals
            /\ \A i \in 1..Len(c.pnames) : Param(c, c.pnames[i]) = a.vals[i]
            /\ \A pv \in Leftovers(c) : SameMatch(Again(c, pv), c)
\* the context that served /u/1/f/2, reused for a request matched by /u/:id:
\* the second value of the earlier request is still in pvalues, and the match
\* has the one parameter id with the value of this request
C34_Witness ==
    /\ Served(1) /\ calls.reqs = 2 /\ Len(ctxs) = 1
    /\ PathOf(1) = <<"/", "u", "/", "7">>
    /\ Ctx(1).path = <<"/", "u", "/", ":", "i", "d">>
    /\ Len(Ctx(1).pvalues) = 2
    /\ Ctx(1).pvalues[2] = <<"2">>
    /\ Len(ParamValues(Ctx(1))) = 1
    /\ Param(Ctx(1), <<"i", "d">>) = ParamValues(Ctx(1))[1]
    /\ Param(Ctx(1), <<"i", "d">>) \notin {<<>>, <<"1">>}
    /\ Param(Ctx(1), <<"f">>) = <<>>

\* ------------------------------------------- properties of unmatched requests
\* the request's path is registered under no method, or under others only
Unmatched(p) == NotRegistered(p) \/ OtherMethodOnly(p)

\* C35, as stated: for a path that is not found or whose method is not
\* allowed, every middleware registered with Pre and Use executes, in order,
\* and the error handler then produces the 404 or the 405.
C35_AllExecute ==
    \A p \in Procs : Served(p) /\ Unmatched(p) =>
        /\ Evs(reqs[p].log) = calls.pre \o <<"find">> \o calls.global
        /\ reqs[p].rec.status \in {StatusNotFound, StatusMethodNotAllowed}

\* C35, amended: the middleware registered with Pre and Use wraps a request
\* that matches no route as it wraps any other: the pre-middleware run in
\* order before the lookup and the global middleware in order after it, each
\* only when the one before it called next, all of them on a context without
\* a matched template; when all of them call next, the chain ends in the
\* not-found or the method-not-allowed handler, nothing is written before that
\* handler's error is returned, and the error handler then answers 404 or 405.
C35_WrapsUnmatched ==
    \A p \in Procs : Served(p) /\ Unmatched(p) =>
        /\ Evs(reqs[p].log) =
              IF AllNext(calls.pre)
              THEN calls.pre \o <<"find">> \o Cut(calls.global)
              ELSE Cut(calls.pre)
        /\ \A i \in 1..Len(reqs[p].log) : reqs[p].log[i].path = <<>>
        /\ AllNext(calls.pre) /\ AllNext(calls.global) =>
              /\ Ctx(p).handler = IF NotRegistered(p) THEN NotFoundHandler
                                  ELSE MethodNotAllowedHandler
              /\ reqs[p].err = IF NotRegistered(p) THEN ErrNotFound
                               ELSE ErrMethodNotAllowed
              /\ ~reqs[p].out.committed
              /\ reqs[p].eh = <<reqs[p].err>>
              /\ reqs[p].rec.status = reqs[p].err.code
              /\ Range(calls.pre) \cup Range(calls.global) \subseteq DOMAIN Ctx(p).store
\* an unregistered path on a mux with a route, a pre-middleware and a global
\* middleware: both ran, around the not-found handler, and the answer is 404
C35_Witness ==
    /\ Served(1) /\ NotRegistered(1)
    /\ calls.adds >= 1
    /\ Len(calls.pre) = 1 /\ Len(calls.global) = 1
    /\ Evs(reqs[1].log) = <<calls.pre[1], "find", calls.global[1]>>
    /\ Ctx(1).handler = NotFoundHandler
    /\ reqs[1].eh = <<ErrNotFound>>
    /\ reqs[1].rec.status = StatusNotFound

\* ------------------------------------------- properties of the time of binding
\* what runs after the lookup when the route rt is requested in this state
ChainOf(rt) ==
    Evs(AfterFind(Dispatch(Reset(NewContext(NoRequest), Req(rt.Method, rt.Path))).log))
\* the route's own part of the chain, as its registration fixed it: its
\* group's middleware, its inline middleware up to the first that does not
\* call next, and its handler when all of them call next
RoutePart(r) ==
    r.chain \o Cut(r.inline) \o (IF AllNext(r.inline) THEN <<r.h>> ELSE <<>>)

\* C36: the global middleware is composed when a request is dispatched: in
\* every state the chain of every registered route is the global middleware
\* of all Use calls made so far, in the order of those calls, followed by the
\* route's own part, wherever the route's Add stands among the Use calls (the
\* chain ends at the first middleware that does not call next); a
\* Use call adds its middleware after the earlier global middleware and
\* leaves the routes and what was registered for them as they are, so it
\* reaches the routes registered before it; an Add call leaves the global
\* middleware and the registrations of the other routes as they are.
C36_UseAppliesLater ==
    /\ [](\A rt \in Routes :
             ChainOf(rt) =
                IF ~AllNext(calls.pre) THEN <<>>
                ELSE IF ~AllNext(calls.global) THEN Cut(calls.global)
                ELSE calls.global \o RoutePart(calls.regs[<<rt.Method, rt.Path>>]))
    /\ [][/\ calls'.global # calls.global =>
                /\ Len(calls'.global) > Len(calls.global)
                /\ IsPrefix(calls.global, calls'.global)
                /\ Routes' = Routes /\ calls'.regs = calls.regs
          /\ Added # {} =>
                /\ calls'.global = calls.global
                /\ \A k \in DOMAIN calls.regs \ Added : calls'.regs[k] = calls.regs[k]]_vars
\* a route registered with inline [m1, m2] before Use(m3) was called: its
\* request runs m3, then m1, m2 and the handler
C36_Witness ==
    /\ Served(1)
    /\ calls.global = <<NextNames[3]>>
    /\ Matched(1).inline = <<NextNames[1], NextNames[2]>>
    /\ Matched(1).group = 0
    /\ Evs(reqs[1].log) =
          <<"find", NextNames[3], NextNames[1], NextNames[2], Matched(1).h>>

\* ------------------------------------------- properties of failing writes
\* C37, as stated: a failure of the error handler to write its response is
\* never discarded: no dispatch ends with an error that a write of the error
\* handler returned and that went nowhere.
C37_WriteFailureSurfaced ==
    \A p \in Procs : Served(p) => reqs[p].dropped = <<>>

\* C37, what the dispatch does: when the error handler's write fails, the
\* error it gets back is dropped; the dispatch ends like any other, with the
\* error handler called once with the chain's error, no body written, at most
\* the status sent, and the context goes back to the pool on the next step.
C37_WriteFailureDropped ==
    \A p \in Procs : Served(p) /\ reqs[p].dropped # <<>> =>
        /\ reqs[p].dropped = <<WriteError>>
        /\ Failed(p) /\ reqs[p].eh = <<reqs[p].err>>
        /\ ~reqs[p].out.committed
        /\ reqs[p].rec.body = <<>>
        /\ reqs[p].rec \in {reqs[p].out,
                            [reqs[p].out EXCEPT !.status = ErrCode(reqs[p].err),
                                                !.committed = TRUE]}
\* a GET for an unregistered path on a failing connection: the error handler
\* was called with the not-found error, nothing was written, and the error of
\* the write is dropped
C37_Witness ==
    /\ Served(1) /\ MethodOf(1) = GET
    /\ reqs[1].err = ErrNotFound /\ reqs[1].eh = <<ErrNotFound>>
    /\ reqs[1].dropped = <<WriteError>>
    /\ reqs[1].rec = NewResponse
====
